---- MODULE Spec2Model ----
(***************************************************************************)
(* Gang-sheet packing and pagination of ramonerose/dtfgangsheet.           *)
(*                                                                         *)
(* All lengths are PDF points (72 per inch), as in the source.  The        *)
(* request handlers are modelled step by step: one action per block of a   *)
(* handler, one action per tile drawn.  JavaScript's Infinity (a division  *)
(* by zero) and NaN (a failed parseInt) are encoded as the integers        *)
(* Infinity and NaN, which lie outside every finite value the handlers     *)
(* compute; arithmetic that can meet them goes through the Js* operators.  *)
(***************************************************************************)
EXTENDS Integers, Sequences, FiniteSets, TLC

\* ------------------------------------------------------------------ bounds
\* Largest valid quantity of a request.
MaxQty == 5
\* Largest quantity of a request to the download-link server.
MaxDlQty == 2
\* Requests one process answers one after the other.
MaxRuns == 2
\* Calls of one handler that one process has received, answered or not.
MaxCalls == 3
\* Largest sheet length, in inches, priced by the tier lookup.
MaxLength == 205
\* Sheets after which a pagination loop that makes no progress is cut off.
MaxSheets == 7

\* --------------------------------------------------------------- constants
SHEET_WIDTH_INCH == 22
MAX_SHEET_HEIGHT_INCH == 200
POINTS_PER_INCH == 72
PNG_DEFAULT_DPI == 300
\* SAFE_MARGIN_INCH * POINTS_PER_INCH = 0.125 * 72
safeMarginPts == 9
\* SPACING_INCH * POINTS_PER_INCH = 0.5 * 72
spacingPts == 36
sheetWidthPts == SHEET_WIDTH_INCH * POINTS_PER_INCH
maxHeightPts == MAX_SHEET_HEIGHT_INCH * POINTS_PER_INCH

\* ------------------------------------------------------ JavaScript numbers
Infinity == 2 ^ 30
NaN == -(2 ^ 30) - 1
IsFinite(v) == v # Infinity /\ v # NaN

\* Math.floor(a / b) for finite a and b >= 0.
JsFloorDiv(a, b) ==
  IF b = 0 THEN (IF a = 0 THEN NaN ELSE IF a > 0 THEN Infinity ELSE -Infinity)
  ELSE a \div b

\* Math.ceil(a / b) for finite b >= 0; a may be Infinity or NaN.
JsCeilDiv(a, b) ==
  IF ~IsFinite(a) THEN a
  ELSE IF b = 0 THEN (IF a = 0 THEN NaN ELSE IF a > 0 THEN Infinity ELSE -Infinity)
  ELSE -((-a) \div b)

\* a * b for finite b > 0; a may be Infinity or NaN.
JsMul(a, b) == IF ~IsFinite(a) THEN a ELSE a * b

\* a + b where a or b may be Infinity or NaN (never Infinity - Infinity).
JsAdd(a, b) ==
  IF a = NaN \/ b = NaN THEN NaN
  ELSE IF a = Infinity \/ b = Infinity THEN Infinity
  ELSE a + b

\* Math.min(a, b): NaN if either is NaN; Infinity is above every finite value.
JsMin(a, b) ==
  IF a = NaN \/ b = NaN THEN NaN
  ELSE IF a <= b THEN a ELSE b

\* ------------------------------------------------------------------- state
VARIABLES
  handler,    \* which /merge handler serves the request
  pc,         \* the handler's position
  req,        \* the parsed request
  lay,        \* the layout values computed once per request
  remaining,  \* tiles still to place (multi-sheet and while-loop modes)
  sheets,     \* the sheets generated so far, in order
  page,       \* the sheet being drawn
  err,        \* the message of the Error thrown, "" when none
  resp,       \* the HTTP response as committed so far
  clients,    \* download-link server: each concurrent request's local state
  appLocals,  \* download-link server: app.locals, sheet id -> stored sheet
  served,     \* download-link server: the last GET /download/:id answered
  earlier     \* the other calls of a handler in the process: answered, or waiting

\* The state of the server that keeps sheets for later download.
app == <<clients, appLocals, served, earlier>>
\* The state of one request of the other handlers.
one == <<handler, pc, req, lay, remaining, sheets, page, err, resp>>
vars == <<one, app>>

\* No GET /download/:id answered yet.
NoServed == [client |-> "", id |-> -1, found |-> FALSE, sheet |-> <<>>]

\* No download-link server is running.
NoApp == clients = <<>> /\ appLocals = <<>> /\ served = NoServed /\ earlier = <<>>

NoLayout ==
  [assetType |-> "pdf", srcWidth |-> 0, srcHeight |-> 0,
   logoWidthPts |-> 0, logoHeightPts |-> 0,
   logosPerRow |-> 0, rowsPerSheet |-> 0, logosPerSheet |-> 0,
   totalSheetsNeeded |-> 0, measured |-> FALSE]

NoPage ==
  [height |-> 0, inches |-> 0, tiles |-> <<>>, cells |-> <<>>, logos |-> 0,
   rows |-> 0, xCursor |-> 0, yCursor |-> 0, c |-> 0, row |-> 0, drawn |-> 0]

NoResp ==
  [status |-> 0, contentType |-> "", filename |-> "", message |-> "",
   piped |-> FALSE, entries |-> <<>>, ended |-> FALSE]

\* --------------------------------------------------------------- inputs
\* Un-rotated asset sizes in points (width, height).  Every size is a
\* multiple of 6 points, so that the same asset exists as a PNG with a
\* whole number of pixels at 300 dpi.
AssetSizes ==
  { <<288, 144>>,     \* 4 x 2 inches: 4 per row, 80 rows per sheet
    <<720, 6048>>,    \* 2 per row, 2 rows per sheet; rotated: too wide
    <<1008, 14382>>,  \* 1 per row, 1 row of exactly the maximum height
    <<1566, 720>>,    \* exactly sheetWidth - 2*margin wide: 1 per row
    <<1584, 720>>,    \* too wide; rotated: 2 per row, 8 rows per sheet
    <<720, 15120>>,   \* too tall; rotated: too wide
    <<504, 900>>,     \* 2 per row; rotated: 1 per row
    <<1008, 1008>> }  \* square: 1 per row, 13 rows per sheet

\* The file names' extensions; the dimensions of a PNG are pixels.
PdfFiles == { [ext |-> e, width |-> a[1], height |-> a[2]] :
                e \in {"pdf", "PDF"}, a \in AssetSizes }
PngFiles == { [ext |-> e,
               width |-> (a[1] * PNG_DEFAULT_DPI) \div POINTS_PER_INCH,
               height |-> (a[2] * PNG_DEFAULT_DPI) \div POINTS_PER_INCH] :
                e \in {"png", "PNG"}, a \in AssetSizes }
OtherFiles == { [ext |-> "jpg", width |-> 0, height |-> 0] }
NoFile == [ext |-> "", width |-> 0, height |-> 0]

\* parseInt(req.body.quantity, 10)
Quantities == {NaN, -1, 0} \cup (1 .. MaxQty)

\* Mutant of line 35: the name is compared as uploaded.
toLowerCase_asIs(s) == s

\* String.prototype.toLowerCase on the extensions above.
toLowerCase(s) ==
  CASE s = "PDF" -> "pdf"
    [] s = "PNG" -> "png"
    [] OTHER -> s

\* ------------------------------------------------------- draw primitive
\* A call of page.drawPage / page.drawImage: the anchor, the size drawn and
\* the rotation in degrees.
DrawCall(x, y, w, h, deg) ==
  [x |-> x, y |-> y, width |-> w, height |-> h, rotate |-> deg]

\* The bounding box the draw primitive covers on the page: it scales the
\* asset to width x height with its bottom-left corner at the anchor, then
\* rotates it counter-clockwise about the anchor.
BBox(t) ==
  IF t.rotate = 90
  THEN [x0 |-> t.x - t.height, x1 |-> t.x, y0 |-> t.y, y1 |-> t.y + t.width]
  ELSE [x0 |-> t.x, x1 |-> t.x + t.width, y0 |-> t.y, y1 |-> t.y + t.height]

\* ==================================================== index.js lines 24-229
\* the /merge handler that precomputes the number of sheets

InitMerge ==
  /\ handler = "merge"
  /\ pc = "validate"
  /\ req \in [file : PdfFiles \cup PngFiles \cup OtherFiles \cup {NoFile},
              quantity : Quantities, rotate : BOOLEAN]
  /\ lay = NoLayout
  /\ remaining = 0
  /\ sheets = <<>>
  /\ page = NoPage
  /\ err = ""
  /\ resp = NoResp
  /\ NoApp

\* Mutant of line 33: only `quantity < 0` is refused.
InvalidQuantity_negative(quantity) == quantity = NaN \/ quantity < 0

\* line 33: `!quantity || quantity <= 0`; NaN and 0 are falsy
InvalidQuantity(quantity) == quantity = NaN \/ quantity = 0 \/ quantity <= 0

\* lines 28-33
MergeValidate ==
  /\ handler = "merge" /\ pc = "validate"
  /\ IF req.file = NoFile
     THEN err' = "No file uploaded" /\ pc' = "catch"
     ELSE IF InvalidQuantity(req.quantity)
     THEN err' = "Invalid quantity" /\ pc' = "catch"
     ELSE err' = err /\ pc' = "kind"
  /\ UNCHANGED <<app, handler, req, lay, remaining, sheets, page, resp>>

\* lines 35-47 and 63-65, 89-91: the dispatch on the file name, up to the
\* first await of the branch taken (PDFDocument.load or PDFDocument.create)
MergeKind ==
  /\ handler = "merge" /\ pc = "kind"
  /\ LET originalName == toLowerCase(req.file.ext)
         isPNG == originalName = "png"
         isPDF == originalName = "pdf"
     IN IF isPDF \/ isPNG
        THEN /\ lay' = [lay EXCEPT
                  !.assetType = IF isPDF THEN "pdf" ELSE "png"]
             /\ pc' = "measure"
             /\ err' = err
        ELSE /\ err' = "Unsupported file type. Please upload PDF or PNG."
             /\ pc' = "catch"
             /\ lay' = lay
  /\ UNCHANGED <<app, handler, req, remaining, sheets, page, resp>>

\* points = pixels / PNG_DEFAULT_DPI * POINTS_PER_INCH (lines 71-75)
PngPts(px) == (px * POINTS_PER_INCH) \div PNG_DEFAULT_DPI

\* Mutant of lines 54 and 81: the layout size is never swapped.
LayoutSize_noSwap(rotate, w, h) == <<w, h>>

\* lines 52-57 and 79-84: layoutWidth and layoutHeight
LayoutSize(rotate, w, h) == IF rotate THEN <<h, w>> ELSE <<w, h>>

\* lines 48-57 and 66-84: the size of the asset, read once the document
\* is loaded or the image embedded
MergeMeasure ==
  /\ handler = "merge" /\ pc = "measure"
  /\ LET isPDF == lay.assetType = "pdf"
         w == IF isPDF THEN req.file.width ELSE PngPts(req.file.width)
         h == IF isPDF THEN req.file.height ELSE PngPts(req.file.height)
     IN lay' = [lay EXCEPT
             !.srcWidth = w, !.srcHeight = h,
             !.logoWidthPts = LayoutSize(req.rotate, w, h)[1],
             !.logoHeightPts = LayoutSize(req.rotate, w, h)[2],
             !.measured = TRUE]
  /\ pc' = "grid"
  /\ UNCHANGED <<app, handler, req, remaining, sheets, page, err, resp>>

\* Mutant of line 99: the gap between columns is left out.
logoTotalWidth_noGap == lay.logoWidthPts

\* lines 99-100
logoTotalWidth == lay.logoWidthPts + spacingPts
logoTotalHeight == lay.logoHeightPts + spacingPts

\* Mutant of line 102: the trailing gap of the last column is not given back.
LogosPerRow_noSlack(logoWidthPts) ==
  JsFloorDiv(sheetWidthPts - safeMarginPts * 2, logoWidthPts + spacingPts)

\* Mutant of line 102: the gap between columns is forgotten.
LogosPerRow_noGap(logoWidthPts) ==
  JsFloorDiv(sheetWidthPts - safeMarginPts * 2 + spacingPts, logoWidthPts)

\* line 102
LogosPerRow(logoWidthPts) ==
  JsFloorDiv(sheetWidthPts - safeMarginPts * 2 + spacingPts,
             logoWidthPts + spacingPts)

\* Mutant of line 106: the trailing gap of the last row is not given back.
RowsPerSheet_noSlack(logoHeightPts) ==
  JsFloorDiv(maxHeightPts - safeMarginPts * 2, logoHeightPts + spacingPts)

\* line 106
RowsPerSheet(logoHeightPts) ==
  JsFloorDiv(maxHeightPts - safeMarginPts * 2 + spacingPts,
             logoHeightPts + spacingPts)

\* Mutant of line 110: Math.floor in place of Math.ceil.
TotalSheetsNeeded_floor(quantity, logosPerSheet) ==
  JsFloorDiv(quantity, logosPerSheet)

\* line 110
TotalSheetsNeeded(quantity, logosPerSheet) == JsCeilDiv(quantity, logosPerSheet)

\* lines 93-111
MergeGrid ==
  /\ handler = "merge" /\ pc = "grid"
  /\ LET logosPerRow == LogosPerRow(lay.logoWidthPts)
         rowsPerSheet == RowsPerSheet(lay.logoHeightPts)
         logosPerSheet == logosPerRow * rowsPerSheet
         totalSheetsNeeded == TotalSheetsNeeded(req.quantity, logosPerSheet)
     IN IF logosPerRow < 1
        THEN /\ err' = "Logo too wide for sheet"
             /\ pc' = "catch"
             /\ lay' = [lay EXCEPT !.logosPerRow = logosPerRow]
        ELSE /\ lay' = [lay EXCEPT !.logosPerRow = logosPerRow,
                                   !.rowsPerSheet = rowsPerSheet,
                                   !.logosPerSheet = logosPerSheet,
                                   !.totalSheetsNeeded = totalSheetsNeeded]
             /\ pc' = IF totalSheetsNeeded = 1 THEN "single" ELSE "multi"
             /\ err' = err
  /\ UNCHANGED <<app, handler, req, remaining, sheets, page, resp>>

\* lines 114-146: the draw call drawLogo makes for the cell at (x, y)
drawLogo(x, y) ==
  IF lay.assetType = "pdf"
  THEN IF req.rotate
       THEN DrawCall(x + lay.logoHeightPts, y, lay.srcWidth, lay.srcHeight, 90)
       ELSE DrawCall(x, y, lay.srcWidth, lay.srcHeight, 0)
  ELSE IF req.rotate
       THEN DrawCall(x, y - lay.logoHeightPts + spacingPts,
                     lay.logoHeightPts, lay.logoWidthPts, 90)
       ELSE DrawCall(x, y, lay.logoWidthPts, lay.logoHeightPts, 0)

\* usedRows * logoTotalHeight + safeMarginPts * 2 - spacingPts (lines 154, 197)
UsedHeightPts(usedRows) ==
  usedRows * logoTotalHeight + safeMarginPts * 2 - spacingPts

\* Mutant of lines 155, 198: the height is rounded down to a whole inch.
RoundedHeightPts_floor(usedHeightPts) ==
  JsFloorDiv(usedHeightPts, POINTS_PER_INCH) * POINTS_PER_INCH

\* Math.ceil(usedHeightPts / POINTS_PER_INCH) * POINTS_PER_INCH (lines 155, 198)
RoundedHeightPts(usedHeightPts) ==
  JsCeilDiv(usedHeightPts, POINTS_PER_INCH) * POINTS_PER_INCH

\* The page opened for `logos` tiles (lines 153-159 and 195-202).
NewPage(logos) ==
  LET usedRows == JsCeilDiv(logos, lay.logosPerRow)
      roundedHeightPts == RoundedHeightPts(UsedHeightPts(usedRows))
  IN [NoPage EXCEPT
        !.height = roundedHeightPts,
        !.inches = JsCeilDiv(roundedHeightPts, POINTS_PER_INCH),
        !.logos = logos,
        !.rows = usedRows,
        !.xCursor = safeMarginPts,
        !.yCursor = roundedHeightPts - safeMarginPts - lay.logoHeightPts]

\* One pass of the inner for loop: a tile is drawn, and when the row is full
\* or the sheet's tiles are all drawn the cursor moves down a row
\* (lines 161-169 and 204-213).
DrawStep(p) ==
  LET rowEnd == ~(p.c + 1 < lay.logosPerRow /\ p.drawn + 1 < p.logos)
  IN [p EXCEPT
        !.tiles = Append(@, drawLogo(p.xCursor, p.yCursor)),
        !.cells = Append(@, <<p.xCursor, p.yCursor>>),
        !.drawn = @ + 1,
        !.c = IF rowEnd THEN 0 ELSE @ + 1,
        !.row = IF rowEnd THEN @ + 1 ELSE @,
        !.xCursor = IF rowEnd THEN safeMarginPts ELSE @ + logoTotalWidth,
        !.yCursor = IF rowEnd THEN @ - logoTotalHeight ELSE @]

\* `gangsheet${sep}${widthInch}x${heightInch}.pdf`, kept as its parts
Filename(sep, widthInch, heightInch) ==
  [sep |-> sep, width |-> widthInch, height |-> heightInch]

\* The record kept of a finished sheet.
Sheet(p) ==
  [height |-> p.height, name |-> Filename("_", SHEET_WIDTH_INCH, p.inches),
   tiles |-> p.tiles, cells |-> p.cells, logos |-> p.logos, rows |-> p.row]

\* lines 149-159
MergeSingleBegin ==
  /\ handler = "merge" /\ pc = "single"
  /\ page' = NewPage(req.quantity)
  /\ pc' = "singleDraw"
  /\ UNCHANGED <<app, handler, req, lay, remaining, sheets, err, resp>>

\* lines 161-169
MergeSingleDraw ==
  /\ handler = "merge" /\ pc = "singleDraw"
  /\ page.drawn < req.quantity
  /\ page' = DrawStep(page)
  /\ UNCHANGED <<app, handler, pc, req, lay, remaining, sheets, err, resp>>

\* lines 171-177
MergeSingleSend ==
  /\ handler = "merge" /\ pc = "singleDraw"
  /\ ~(page.drawn < req.quantity)
  /\ sheets' = Append(sheets, Sheet(page))
  /\ resp' = [resp EXCEPT !.status = 200, !.contentType = "application/pdf",
                          !.filename = "gangsheet", !.ended = TRUE]
  /\ pc' = "done"
  /\ UNCHANGED <<app, handler, req, lay, remaining, page, err>>

\* lines 181-187
MergeMultiBegin ==
  /\ handler = "merge" /\ pc = "multi"
  /\ resp' = [resp EXCEPT !.contentType = "application/zip",
                          !.filename = "gangsheets.zip", !.piped = TRUE]
  /\ remaining' = req.quantity
  /\ pc' = "sheet"
  /\ UNCHANGED <<app, handler, req, lay, sheets, page, err>>

\* lines 189-202; sheetIndex is the number of sheets appended so far
MergeSheetBegin ==
  /\ handler = "merge" /\ pc = "sheet"
  /\ Len(sheets) < lay.totalSheetsNeeded
  /\ IsFinite(lay.totalSheetsNeeded) \/ Len(sheets) < MaxSheets
  /\ page' = NewPage(JsMin(remaining, lay.logosPerSheet))
  /\ pc' = "sheetDraw"
  /\ UNCHANGED <<app, handler, req, lay, remaining, sheets, err, resp>>

\* lines 204-213
MergeSheetDraw ==
  /\ handler = "merge" /\ pc = "sheetDraw"
  /\ page.drawn < page.logos
  /\ page' = DrawStep(page)
  /\ remaining' = remaining - 1
  /\ UNCHANGED <<app, handler, pc, req, lay, sheets, err, resp>>

RECURSIVE DrawRow(_)
\* lines 206-211: the for loop of one row, from the cursor on
DrawRow(p) ==
  LET q == DrawStep(p)
  IN IF q.c = 0 THEN q ELSE DrawRow(q)

RECURSIVE DrawAll(_)
\* lines 204-213 run to the end: `while (drawn < logosOnThisSheet)`
DrawAll(p) == IF p.drawn < p.logos THEN DrawAll(DrawRow(p)) ELSE p

\* lines 204-213, the whole loop at once (no await inside it)
MergeSheetDrawAll ==
  /\ handler = "merge" /\ pc = "sheetDraw"
  /\ page.drawn < page.logos
  /\ page' = DrawAll(page)
  /\ remaining' = remaining - (page.logos - page.drawn)
  /\ UNCHANGED <<app, handler, pc, req, lay, sheets, err, resp>>

\* lines 215-221
MergeSheetAppend ==
  /\ handler = "merge" /\ pc = "sheetDraw"
  /\ ~(page.drawn < page.logos)
  /\ sheets' = Append(sheets, Sheet(page))
  /\ resp' = [resp EXCEPT !.entries = Append(@, Filename("_", SHEET_WIDTH_INCH, page.inches))]
  /\ pc' = "sheet"
  /\ UNCHANGED <<app, handler, req, lay, remaining, page, err>>

\* line 224
MergeFinalize ==
  /\ handler = "merge" /\ pc = "sheet"
  /\ ~(Len(sheets) < lay.totalSheetsNeeded)
  /\ resp' = [resp EXCEPT !.status = 200, !.ended = TRUE]
  /\ pc' = "done"
  /\ UNCHANGED <<app, handler, req, lay, remaining, sheets, page, err>>

\* lines 225-228
MergeCatch ==
  /\ handler = "merge" /\ pc = "catch"
  /\ resp' = [resp EXCEPT !.status = 500, !.message = err, !.ended = TRUE]
  /\ pc' = "failed"
  /\ UNCHANGED <<app, handler, req, lay, remaining, sheets, page, err>>

\* lines 191-192 and 215: an awaited call of the multi-sheet loop rejects
\* (PDFDocument.create or embedFunc at the head of an iteration, save after
\* the tiles are drawn), and control passes to the catch block of line 225
MergeSheetThrow ==
  /\ handler = "merge"
  /\ \/ pc = "sheet" /\ Len(sheets) < lay.totalSheetsNeeded
     \/ pc = "sheetDraw" /\ ~(page.drawn < page.logos)
  /\ err' = "rejected"
  /\ pc' = "catch"
  /\ UNCHANGED <<app, handler, req, lay, remaining, sheets, page, resp>>

\* The requests sent again and again to one process: assets, each with its
\* transpose and as PDF and as PNG, that give a single sheet, several sheets
\* or an error; and one without a file.
RepeatSizes ==
  { <<288, 144>>, <<144, 288>>, <<720, 6048>>, <<6048, 720>>, <<1008, 1008>> }

RepeatRequests ==
  [file : { [ext |-> "pdf", width |-> a[1], height |-> a[2]] : a \in RepeatSizes }
          \cup { [ext |-> "png",
                   width |-> (a[1] * PNG_DEFAULT_DPI) \div POINTS_PER_INCH,
                   height |-> (a[2] * PNG_DEFAULT_DPI) \div POINTS_PER_INCH] :
                    a \in RepeatSizes },
   quantity : {1, MaxQty}, rotate : BOOLEAN]
  \cup [file : {NoFile}, quantity : {1}, rotate : {FALSE}]

\* Mutant of lines 24-25: the list of sheets outlives the request.
FreshLocals_sheetsKept ==
  [lay |-> NoLayout, remaining |-> 0, sheets |-> sheets, page |-> NoPage,
   err |-> "", resp |-> NoResp]

\* lines 24-25: every call of the handler has its own locals, and the
\* module keeps no state between calls
FreshLocals ==
  [lay |-> NoLayout, remaining |-> 0, sheets |-> <<>>, page |-> NoPage,
   err |-> "", resp |-> NoResp]

\* What a finished request has sent.
Outcome ==
  [req |-> req, pc |-> pc, lay |-> lay, sheets |-> sheets, resp |-> resp, err |-> err]

\* line 24: the next request reaches the same process
MergeAgain ==
  /\ handler = "merge" /\ pc \in {"done", "failed"}
  /\ Len(earlier) < MaxRuns - 1
  /\ earlier' = Append(earlier, Outcome)
  /\ req' \in RepeatRequests
  /\ pc' = "validate"
  /\ lay' = FreshLocals.lay
  /\ remaining' = FreshLocals.remaining
  /\ sheets' = FreshLocals.sheets
  /\ page' = FreshLocals.page
  /\ err' = FreshLocals.err
  /\ resp' = FreshLocals.resp
  /\ UNCHANGED <<handler, clients, appLocals, served>>

NextMerge ==
  \/ MergeValidate
  \/ MergeKind
  \/ MergeMeasure
  \/ MergeGrid
  \/ MergeSingleBegin
  \/ MergeSingleDraw
  \/ MergeSingleSend
  \/ MergeMultiBegin
  \/ MergeSheetBegin
  \/ MergeSheetDraw
  \/ MergeSheetAppend
  \/ MergeFinalize
  \/ MergeCatch

\* ================================================== index.js lines 235-349
\* the /merge handler that paginates with `while (remaining > 0)`

\* parseInt(req.query.qty || "10") and parseInt(req.query.rotate || "0")
QueryQuantities == 0 .. MaxQty
RotateAngles == {0, 90, 270}
QueryFiles == { [ext |-> "pdf", width |-> a[1], height |-> a[2]] : a \in AssetSizes }

InitQuery(h) ==
  /\ handler = h
  /\ pc = "start"
  /\ req \in [file : QueryFiles \cup {NoFile},
              quantity : QueryQuantities, rotateAngle : RotateAngles]
  /\ lay = NoLayout
  /\ remaining = 0
  /\ sheets = <<>>
  /\ page = NoPage
  /\ err = ""
  /\ resp = NoResp
  /\ NoApp

InitWhile == InitQuery("while")

\* line 252 (part_003 line 31)
isRotated == req.rotateAngle = 90 \/ req.rotateAngle = 270

\* line 260 (part_003 line 41)
PerRow(logoWidthPts) ==
  JsFloorDiv((sheetWidthPts - safeMarginPts * 2) + spacingPts,
             logoWidthPts + spacingPts)

\* lines 248-260 (part_003 lines 28-41): the asset's layout size and perRow
QueryLayout ==
  LET originalWidth == req.file.width
      originalHeight == req.file.height
      logoWidthPts == IF isRotated THEN originalHeight ELSE originalWidth
      logoHeightPts == IF isRotated THEN originalWidth ELSE originalHeight
  IN [lay EXCEPT !.srcWidth = originalWidth, !.srcHeight = originalHeight,
                 !.logoWidthPts = logoWidthPts, !.logoHeightPts = logoHeightPts,
                 !.logosPerRow = PerRow(logoWidthPts), !.measured = TRUE]

\* lines 237-265; req.file.buffer throws a TypeError when no file came
WhileStart ==
  /\ handler = "while" /\ pc = "start"
  /\ IF req.file = NoFile
     THEN /\ err' = "TypeError" /\ pc' = "catch"
          /\ UNCHANGED <<lay, remaining>>
     ELSE /\ lay' = QueryLayout
          /\ remaining' = req.quantity
          /\ pc' = "loop"
          /\ err' = err
  /\ UNCHANGED <<app, handler, req, sheets, page, resp>>

\* marginPts * 2 + rows * logoHeightPts + (rows - 1) * spacingPts
\* (lines 272-273, part_003 lines 53-56)
RequiredHeightPts(rows, logoHeightPts) ==
  JsAdd(JsAdd(safeMarginPts * 2, JsMul(rows, logoHeightPts)),
        JsMul(JsAdd(rows, -1), spacingPts))

\* lines 276-280
WhileSheetHeightInches(remainingNow) ==
  LET rowsNeeded == JsCeilDiv(remainingNow, lay.logosPerRow)
      sheetHeightPts == JsMin(RequiredHeightPts(rowsNeeded, lay.logoHeightPts), maxHeightPts)
  IN JsCeilDiv(sheetHeightPts, POINTS_PER_INCH)

\* Mutant of lines 282-284: the trailing gap of the last row is not given back.
WhileRowsPerSheet_noSlack(sheetHeightPts) ==
  JsFloorDiv(sheetHeightPts - safeMarginPts * 2, lay.logoHeightPts + spacingPts)

\* lines 282-284
WhileRowsPerSheet(sheetHeightPts) ==
  JsFloorDiv(sheetHeightPts - safeMarginPts * 2 + spacingPts,
             lay.logoHeightPts + spacingPts)

\* lines 267-292: the pass is planned, up to the await of
\* PDFDocument.create()
WhileSheetBegin ==
  /\ handler = "while" /\ pc = "loop"
  /\ remaining > 0
  /\ Len(sheets) < MaxSheets
  /\ LET roundedHeightInches == WhileSheetHeightInches(remaining)
         sheetHeightPts == roundedHeightInches * POINTS_PER_INCH
     IN lay' = [lay EXCEPT !.rowsPerSheet = WhileRowsPerSheet(sheetHeightPts)]
  /\ pc' = "create"
  /\ UNCHANGED <<app, handler, req, remaining, sheets, page, err, resp>>

\* lines 293-295: the page of the height planned at lines 276-280
WhileSheetPage ==
  /\ handler = "while" /\ pc = "create"
  /\ LET roundedHeightInches == WhileSheetHeightInches(remaining)
         sheetHeightPts == roundedHeightInches * POINTS_PER_INCH
     IN page' = [NoPage EXCEPT !.height = sheetHeightPts,
                               !.inches = roundedHeightInches]
  /\ pc' = "draw"
  /\ UNCHANGED <<app, handler, req, lay, remaining, sheets, err, resp>>

\* Mutant of line 299: the gap between columns is left out.
BaseX_noGap(col) == safeMarginPts + col * lay.logoWidthPts

\* lines 299-301 (part_003 lines 73-75)
BaseX(col) == safeMarginPts + col * (lay.logoWidthPts + spacingPts)
BaseY(sheetHeightPts, row) ==
  sheetHeightPts - safeMarginPts - (row + 1) * lay.logoHeightPts - row * spacingPts

\* lines 303-318: the draw call for the cell at (baseX, baseY)
WhileDrawCall(baseX, baseY) ==
  IF req.rotateAngle = 90
  THEN DrawCall(baseX + lay.logoWidthPts, baseY, lay.srcWidth, lay.srcHeight, 90)
  ELSE DrawCall(baseX, baseY, lay.srcWidth, lay.srcHeight, 0)

\* One pass of the inner for loop of a grid (lines 297-323, part_003 lines
\* 71-88): the tile is drawn, and the row ends when it is full or no tile
\* remains.
GridStep(p, call, remainingAfter) ==
  LET rowEnd == ~(p.c + 1 < lay.logosPerRow /\ remainingAfter > 0)
  IN [p EXCEPT !.tiles = Append(@, call),
               !.cells = Append(@, <<BaseX(p.c), BaseY(p.height, p.row)>>),
               !.drawn = @ + 1,
               !.c = IF rowEnd THEN 0 ELSE @ + 1,
               !.row = IF rowEnd THEN @ + 1 ELSE @]

\* Whether the nested for loops still have a tile to draw.
GridCanDraw(rowLimit) ==
  /\ page.row < rowLimit
  /\ remaining > 0
  /\ page.c < lay.logosPerRow

\* lines 297-323
WhileDraw ==
  /\ handler = "while" /\ pc = "draw"
  /\ GridCanDraw(lay.rowsPerSheet)
  /\ page' = GridStep(page,
                      WhileDrawCall(BaseX(page.c), BaseY(page.height, page.row)),
                      remaining - 1)
  /\ remaining' = remaining - 1
  /\ UNCHANGED <<app, handler, pc, req, lay, sheets, err, resp>>

\* The record kept of a sheet of a grid loop.
GridSheet(p, sep) ==
  [height |-> p.height, name |-> Filename(sep, SHEET_WIDTH_INCH, p.inches),
   tiles |-> p.tiles, cells |-> p.cells, logos |-> p.drawn, rows |-> p.row]

\* lines 325-334
WhileSheetPush ==
  /\ handler = "while" /\ pc = "draw"
  /\ ~GridCanDraw(lay.rowsPerSheet)
  /\ sheets' = Append(sheets, GridSheet(page, "-"))
  /\ pc' = "loop"
  /\ UNCHANGED <<app, handler, req, lay, remaining, page, err, resp>>

\* lines 337-343
WhileRespond ==
  /\ handler = "while" /\ pc = "loop"
  /\ ~(remaining > 0)
  /\ resp' = [resp EXCEPT !.status = 200, !.contentType = "application/json",
                          !.entries = [i \in 1 .. Len(sheets) |-> sheets[i].name],
                          !.ended = TRUE]
  /\ pc' = "done"
  /\ UNCHANGED <<app, handler, req, lay, remaining, sheets, page, err>>

\* lines 345-348
WhileCatch ==
  /\ handler = "while" /\ pc = "catch"
  /\ resp' = [resp EXCEPT !.status = 500, !.message = "Error merging PDF",
                          !.ended = TRUE]
  /\ pc' = "failed"
  /\ UNCHANGED <<app, handler, req, lay, remaining, sheets, page, err>>

NextWhile ==
  \/ WhileStart
  \/ WhileSheetBegin
  \/ WhileSheetPage
  \/ WhileDraw
  \/ WhileSheetPush
  \/ WhileRespond
  \/ WhileCatch

\* ======================================================= part_003 lines 18-106
\* the /merge handler that generates only the first sheet

InitFirst == InitQuery("first")

\* lines 46-63: the rows of the sheet and its height in inches
FirstRows(qty, perRow, logoHeightPts) ==
  LET maxPossibleRows == JsFloorDiv(maxHeightPts - safeMarginPts * 2 + spacingPts,
                                    logoHeightPts + spacingPts)
      rowsNeededForRemaining == JsCeilDiv(qty, perRow)
  IN JsMin(rowsNeededForRemaining, maxPossibleRows)

FirstHeightInches(rowsForThisSheet, logoHeightPts) ==
  LET roundedHeightInches ==
        JsCeilDiv(RequiredHeightPts(rowsForThisSheet, logoHeightPts), POINTS_PER_INCH)
  IN IF roundedHeightInches > MAX_SHEET_HEIGHT_INCH
     THEN MAX_SHEET_HEIGHT_INCH
     ELSE roundedHeightInches

\* lines 20-67, up to the await of PDFDocument.create(); req.file.buffer
\* throws a TypeError when no file came
FirstStart ==
  /\ handler = "first" /\ pc = "start"
  /\ IF req.file = NoFile
     THEN /\ err' = "TypeError" /\ pc' = "catch"
          /\ UNCHANGED <<lay, remaining>>
     ELSE LET l == QueryLayout
              rowsForThisSheet == FirstRows(req.quantity, l.logosPerRow, l.logoHeightPts)
          IN
          /\ lay' = [l EXCEPT !.rowsPerSheet = rowsForThisSheet]
          /\ remaining' = req.quantity
          /\ pc' = "create"
          /\ err' = err
  /\ UNCHANGED <<app, handler, req, sheets, page, resp>>

\* lines 68-70: the page of the height of lines 53-63; addPage throws a
\* TypeError when the height is NaN: pdf-lib asserts that a page's width
\* and height are numbers other than NaN
FirstPage ==
  /\ handler = "first" /\ pc = "create"
  /\ LET roundedHeightInches == FirstHeightInches(lay.rowsPerSheet, lay.logoHeightPts)
         sheetHeightPts == JsMul(roundedHeightInches, POINTS_PER_INCH)
     IN IF sheetHeightPts = NaN
        THEN err' = "TypeError" /\ pc' = "catch" /\ page' = page
        ELSE /\ page' = [NoPage EXCEPT !.inches = roundedHeightInches,
                                       !.height = sheetHeightPts]
             /\ pc' = "draw"
             /\ err' = err
  /\ UNCHANGED <<app, handler, req, lay, remaining, sheets, resp>>

\* lines 77-83
FirstDrawCall(baseX, baseY) ==
  DrawCall(IF isRotated THEN baseX + lay.logoWidthPts ELSE baseX, baseY,
           lay.srcWidth, lay.srcHeight, IF isRotated THEN 90 ELSE 0)

\* lines 71-88
FirstDraw ==
  /\ handler = "first" /\ pc = "draw"
  /\ GridCanDraw(lay.rowsPerSheet)
  /\ page' = GridStep(page,
                      FirstDrawCall(BaseX(page.c), BaseY(page.height, page.row)),
                      remaining - 1)
  /\ remaining' = remaining - 1
  /\ UNCHANGED <<app, handler, pc, req, lay, sheets, err, resp>>

\* lines 92-100
FirstSend ==
  /\ handler = "first" /\ pc = "draw"
  /\ ~GridCanDraw(lay.rowsPerSheet)
  /\ sheets' = Append(sheets, GridSheet(page, "_"))
  /\ resp' = [resp EXCEPT !.status = 200, !.contentType = "application/pdf",
                          !.filename = "gangsheet", !.ended = TRUE]
  /\ pc' = "done"
  /\ UNCHANGED <<app, handler, req, lay, remaining, page, err>>

\* lines 102-105
FirstCatch ==
  /\ handler = "first" /\ pc = "catch"
  /\ resp' = [resp EXCEPT !.status = 500, !.message = "Error generating test sheet",
                          !.ended = TRUE]
  /\ pc' = "failed"
  /\ UNCHANGED <<app, handler, req, lay, remaining, sheets, page, err>>

NextFirst ==
  \/ FirstStart
  \/ FirstPage
  \/ FirstDraw
  \/ FirstSend
  \/ FirstCatch

\* ======================================================= part_002 lines 213-351
\* the priced /merge handler: art scaled to the sheet width, one cost per sheet

\* line 215
INCH_TO_POINTS == 72
\* SPACING_INCH * INCH_TO_POINTS = 0.25 * 72 (lines 216-217)
SPACING_POINTS == 18
\* the left and top padding of lines 282-283
PricedPadding == 9

\* lines 220-233, the costs in cents
COST_TABLE ==
  << [length |-> 12, cost |-> 528],    [length |-> 24, cost |-> 1056],
     [length |-> 36, cost |-> 1584],   [length |-> 48, cost |-> 2112],
     [length |-> 60, cost |-> 2640],   [length |-> 80, cost |-> 3520],
     [length |-> 100, cost |-> 4400],  [length |-> 120, cost |-> 4928],
     [length |-> 140, cost |-> 5632],  [length |-> 160, cost |-> 6160],
     [length |-> 180, cost |-> 6864],  [length |-> 200, cost |-> 7568] >>

RECURSIVE CostScan_strict(_, _)
\* Mutant of line 238: `<` in place of `<=`.
CostScan_strict(i, length) ==
  IF i > Len(COST_TABLE) THEN COST_TABLE[Len(COST_TABLE)].cost
  ELSE IF length < COST_TABLE[i].length THEN COST_TABLE[i].cost
  ELSE CostScan_strict(i + 1, length)

RECURSIVE CostScan(_, _)
\* lines 237-240: the for-of loop from entry i on, then the fallback
CostScan(i, length) ==
  IF i > Len(COST_TABLE) THEN COST_TABLE[Len(COST_TABLE)].cost
  ELSE IF length <= COST_TABLE[i].length THEN COST_TABLE[i].cost
  ELSE CostScan(i + 1, length)

\* Mutant of lines 236-241: the scan with `<`.
getCostForLength_strict(length) == CostScan_strict(1, length)

\* lines 236-241; length may be Infinity, which is above every tier
getCostForLength(length) == CostScan(1, length)

\* Oriented art sizes in points for a sheet of the given width: every scale
\* factor gangWidthPoints / artWidthPts is 1, 2 or 1/2.
PricedArts(gangWidthPoints) ==
  { <<gangWidthPoints, 72>>, <<gangWidthPoints, 3600>>,
    <<gangWidthPoints \div 2, 1800>>, <<gangWidthPoints * 2, 144>> }

\* parseFloat(req.body.gangWidth) and parseFloat(req.body.maxLength); NaN
\* when the field is absent
GangWidths == {NaN, 30}
MaxLengths == {NaN, 24}

InitPriced ==
  /\ handler = "priced"
  /\ pc = "start"
  /\ \E gw \in GangWidths, ml \in MaxLengths, rot \in BOOLEAN,
        q \in {NaN, -1} \cup (1 .. MaxQty) :
       \E f \in { [ext |-> "pdf",
                    width |-> IF rot THEN a[2] ELSE a[1],
                    height |-> IF rot THEN a[1] ELSE a[2]] :
                     a \in PricedArts((IF gw = NaN THEN 22 ELSE gw) * INCH_TO_POINTS) }
                 \cup {NoFile} :
         req = [file |-> f, quantity |-> q, rotate |-> rot,
                gangWidth |-> gw, maxLength |-> ml]
  /\ lay = NoLayout
  /\ remaining = 0
  /\ sheets = <<>>
  /\ page = NoPage
  /\ err = ""
  /\ resp = NoResp
  /\ NoApp

\* `parsed || fallback`: NaN and 0 are falsy
OrDefault(parsed, fallback) ==
  IF parsed = NaN \/ parsed = 0 THEN fallback ELSE parsed

\* lines 246-252
gangWidthInches == OrDefault(req.gangWidth, 22)
maxLengthInches == OrDefault(req.maxLength, 200)
gangWidthPoints == gangWidthInches * INCH_TO_POINTS
maxLengthPoints == maxLengthInches * INCH_TO_POINTS

\* lines 246-276; the art is scaled to the full sheet width; req.file.buffer
\* (line 259) throws a TypeError when no file came
PricedStart ==
  /\ handler = "priced" /\ pc = "start"
  /\ IF req.file = NoFile
     THEN /\ err' = "TypeError" /\ pc' = "catch"
          /\ UNCHANGED <<lay, remaining>>
     ELSE
       LET artWidthPts == IF req.rotate THEN req.file.height ELSE req.file.width
           artHeightPts == IF req.rotate THEN req.file.width ELSE req.file.height
           scaledArtWidth == gangWidthPoints
           scaledArtHeight == (artHeightPts * gangWidthPoints) \div artWidthPts
       IN /\ lay' = [lay EXCEPT !.srcWidth = req.file.width,
                                !.srcHeight = req.file.height,
                                !.logoWidthPts = scaledArtWidth,
                                !.logoHeightPts = scaledArtHeight,
                                !.measured = TRUE]
          /\ remaining' = OrDefault(req.quantity, 1)
          /\ pc' = "loop"
          /\ err' = err
  /\ UNCHANGED <<app, handler, req, sheets, page, resp>>

\* lines 278-287
PricedSheetBegin ==
  /\ handler = "priced" /\ pc = "loop"
  /\ remaining > 0
  /\ page' = [NoPage EXCEPT !.height = maxLengthPoints,
                            !.xCursor = PricedPadding,
                            !.yCursor = maxLengthPoints - lay.logoHeightPts - PricedPadding]
  /\ pc' = "place"
  /\ UNCHANGED <<app, handler, req, lay, remaining, sheets, err, resp>>

\* lines 289-295: copyPages returns a PDFPage, and drawPage, which asserts
\* that it is given a PDFEmbeddedPage, throws a TypeError; nothing is drawn,
\* `remaining` and `fitsOnSheet` (lines 297-298) are not reached, and neither
\* is the rest of the loop (lines 300-339)
PricedPlace ==
  /\ handler = "priced" /\ pc = "place"
  /\ err' = "TypeError"
  /\ pc' = "catch"
  /\ UNCHANGED <<app, handler, req, lay, remaining, sheets, page, resp>>

\* lines 347-350
PricedCatch ==
  /\ handler = "priced" /\ pc = "catch"
  /\ resp' = [resp EXCEPT !.status = 500, !.contentType = "application/json",
                          !.message = "Failed to generate gang sheets",
                          !.ended = TRUE]
  /\ pc' = "failed"
  /\ UNCHANGED <<app, handler, req, lay, remaining, sheets, page, err>>

RECURSIVE SumCost(_)
\* totalCost += cost (line 332)
SumCost(ss) == IF ss = <<>> THEN 0 ELSE ss[1].cost + SumCost(Tail(ss))

\* lines 342-345
PricedRespond ==
  /\ handler = "priced" /\ pc = "loop"
  /\ ~(remaining > 0)
  /\ resp' = [resp EXCEPT !.status = 200, !.contentType = "application/json",
                          !.entries = [i \in 1 .. Len(sheets) |-> sheets[i].name],
                          !.message = SumCost(sheets),
                          !.ended = TRUE]
  /\ pc' = "done"
  /\ UNCHANGED <<app, handler, req, lay, remaining, sheets, page, err>>

NextPriced ==
  \/ PricedStart
  \/ PricedSheetBegin
  \/ PricedPlace
  \/ PricedCatch
  \/ PricedRespond

\* The tier lookup on its own: getCostForLength applied to two lengths.
InitTier ==
  /\ handler = "tier"
  /\ pc = "call"
  /\ req \in UNION { { [length |-> a, other |-> b] : b \in {a, a + 1, MaxLength} } :
                     a \in 0 .. MaxLength }
  /\ lay = NoLayout
  /\ remaining = 0
  /\ sheets = <<>>
  /\ page = NoPage
  /\ err = ""
  /\ resp = [cost |-> 0, otherCost |-> 0]
  /\ NoApp

\* lines 236-241, called on both lengths
TierCall ==
  /\ handler = "tier" /\ pc = "call"
  /\ resp' = [cost |-> getCostForLength(req.length),
              otherCost |-> getCostForLength(req.other)]
  /\ pc' = "returned"
  /\ UNCHANGED <<app, handler, req, lay, remaining, sheets, page, err>>

NextTier == TierCall

\* ======================================================= part_002 lines 367-522
\* the server that keeps the generated sheets in app.locals for GET /download

Clients == {"A", "B"}

DlFiles ==
  { [ext |-> "pdf", width |-> a[1], height |-> a[2]] :
      a \in { <<288, 144>>, <<1008, 14382>>, <<1584, 720>> } }

NoClient ==
  [pc |-> "start", file |-> NoFile, quantity |-> 0, rotateAngle |-> 0,
   logoWidthPts |-> 0, logoHeightPts |-> 0, perRow |-> 0,
   remaining |-> 0, sheet |-> <<>>, generatedSheets |-> <<>>, links |-> 0]

InitDownload ==
  /\ handler = "download"
  /\ pc = "serving"
  /\ req = NoFile
  /\ lay = NoLayout
  /\ remaining = 0
  /\ sheets = <<>>
  /\ page = NoPage
  /\ err = ""
  /\ resp = NoResp
  /\ clients \in [Clients ->
       { [NoClient EXCEPT !.file = f, !.quantity = q, !.rotateAngle = r] :
           f \in DlFiles \cup {NoFile}, q \in 1 .. MaxDlQty, r \in {0, 90} }]
  /\ appLocals = <<>>
  /\ served = NoServed
  /\ earlier = <<>>

RECURSIVE DlPlace(_, _, _, _, _)
\* lines 449-475: the nested for loops from (row, col) on, with `rem` tiles
\* remaining; g holds the sheet's geometry.  The draw calls, in order.
DlPlace(g, row, col, rem, tiles) ==
  IF ~(row < g.rowsPerSheet /\ rem > 0) THEN tiles
  ELSE IF ~(col < g.perRow /\ rem > 0) THEN DlPlace(g, row + 1, 0, rem, tiles)
  ELSE LET baseX == safeMarginPts + col * (g.logoWidthPts + spacingPts)
           baseY == g.sheetHeightPts - safeMarginPts
                      - (row + 1) * g.logoHeightPts - row * spacingPts
           call == IF g.rotateAngle = 90
                   THEN DrawCall(baseX + g.logoWidthPts, baseY, g.width, g.height, 90)
                   ELSE DrawCall(baseX, baseY, g.width, g.height, 0)
       IN DlPlace(g, row, col + 1, rem - 1, Append(tiles, call))

\* lines 415-481: one pass of `while (remaining > 0)`, the sheet it makes
DlSheetOf(me) ==
  LET rowsNeeded == JsCeilDiv(me.remaining, me.perRow)
      requiredHeightPts == RequiredHeightPts(rowsNeeded, me.logoHeightPts)
      cappedHeightPts == JsMin(requiredHeightPts, maxHeightPts)
      rowsPerSheet == JsFloorDiv(cappedHeightPts - safeMarginPts * 2 + spacingPts,
                                 me.logoHeightPts + spacingPts)
      usedHeightPts == safeMarginPts * 2 + rowsPerSheet * me.logoHeightPts
                         + (rowsPerSheet - 1) * spacingPts
      roundedHeightInches == JsCeilDiv(usedHeightPts, POINTS_PER_INCH)
      sheetHeightPts == roundedHeightInches * POINTS_PER_INCH
      tiles == DlPlace([rowsPerSheet |-> rowsPerSheet, perRow |-> me.perRow,
                        logoWidthPts |-> me.logoWidthPts,
                        logoHeightPts |-> me.logoHeightPts,
                        sheetHeightPts |-> sheetHeightPts,
                        rotateAngle |-> me.rotateAngle,
                        width |-> me.file.width, height |-> me.file.height],
                       0, 0, me.remaining, <<>>)
  IN [name |-> Filename("_", SHEET_WIDTH_INCH, roundedHeightInches),
      data |-> [height |-> sheetHeightPts, tiles |-> tiles,
                asset |-> <<me.file.width, me.file.height>>]]

\* Lines 489-500, run when `while (remaining > 0)` is left: every sheet is
\* stored in app.locals under `sheet${idx}`, idx from 0, and the links to
\* those ids are sent.
DlStored(gen) ==
  [idx \in DOMAIN appLocals \cup (0 .. Len(gen) - 1) |->
     IF idx < Len(gen) THEN gen[idx + 1] ELSE appLocals[idx]]

\* lines 381-411, up to the test of line 413 and the await of line 443.
\* req.file.buffer (line 384) throws a TypeError when no file came, and the
\* catch of lines 502-505 answers in the same run.  With nothing to place
\* the loop is skipped and lines 489-500 answer at once.
DlStart(c) ==
  /\ clients[c].pc = "start"
  /\ LET me == clients[c]
         rotated == me.rotateAngle = 90 \/ me.rotateAngle = 270
         logoWidthPts == IF rotated THEN me.file.height ELSE me.file.width
         logoHeightPts == IF rotated THEN me.file.width ELSE me.file.height
         measured == [me EXCEPT !.logoWidthPts = logoWidthPts,
                                !.logoHeightPts = logoHeightPts,
                                !.perRow = PerRow(logoWidthPts),
                                !.remaining = me.quantity]
     IN IF me.file = NoFile
        THEN /\ clients' = [clients EXCEPT ![c] = [me EXCEPT !.pc = "failed"]]
             /\ appLocals' = appLocals
        ELSE IF me.quantity > 0
        THEN /\ clients' = [clients EXCEPT ![c] = [measured EXCEPT !.pc = "create"]]
             /\ appLocals' = appLocals
        ELSE /\ clients' = [clients EXCEPT ![c] = [measured EXCEPT !.pc = "responded"]]
             /\ appLocals' = DlStored(<<>>)
  /\ UNCHANGED <<one, served, earlier>>

\* lines 415-480, from the return of `await PDFDocument.create()` (line 443)
\* to the call of `await sheetDoc.save()` (line 480): the page is added, the
\* tiles are drawn and `remaining` is counted down
DlSheetDraw(c) ==
  /\ clients[c].pc = "create"
  /\ Len(clients[c].generatedSheets) < MaxSheets
  /\ LET me == clients[c]
         sheet == DlSheetOf(me)
     IN clients' = [clients EXCEPT ![c] =
          [me EXCEPT !.remaining = @ - Len(sheet.data.tiles),
                     !.sheet = sheet,
                     !.pc = "save"]]
  /\ UNCHANGED <<one, appLocals, served, earlier>>

\* lines 480-500, from the return of `await sheetDoc.save()`: the sheet is
\* pushed (line 484) and the loop is tested again (line 413); either the next
\* pass runs up to its await of line 443, or lines 489-500 store the sheets
\* in app.locals and send the links, all in this run
DlSheetPush(c) ==
  /\ clients[c].pc = "save"
  /\ LET me == clients[c]
         gen == Append(me.generatedSheets, me.sheet)
     IN IF me.remaining > 0
        THEN /\ clients' = [clients EXCEPT ![c] =
                  [me EXCEPT !.generatedSheets = gen, !.pc = "create"]]
             /\ appLocals' = appLocals
        ELSE /\ clients' = [clients EXCEPT ![c] =
                  [me EXCEPT !.generatedSheets = gen, !.pc = "responded",
                             !.links = Len(gen)]]
             /\ appLocals' = DlStored(gen)
  /\ UNCHANGED <<one, served, earlier>>

\* lines 509-518: the client of request c follows the link to `sheet${idx}`
Download(c, idx) ==
  /\ clients[c].pc = "responded"
  /\ idx \in 0 .. clients[c].links - 1
  /\ served' = IF idx \in DOMAIN appLocals
               THEN [client |-> c, id |-> idx, found |-> TRUE, sheet |-> appLocals[idx]]
               ELSE [client |-> c, id |-> idx, found |-> FALSE, sheet |-> <<>>]
  /\ UNCHANGED <<one, clients, appLocals, earlier>>

NextDownload ==
  \/ \E c \in Clients : DlStart(c)
  \/ \E c \in Clients : DlSheetDraw(c)
  \/ \E c \in Clients : DlSheetPush(c)
  \/ \E c \in Clients, idx \in 0 .. MaxSheets : Download(c, idx)

\* ======================================================= part_007 lines 163-301
\* the /merge handler that answers with one PDF or with a JSZip archive

InitZip == InitQuery("zip")

\* lines 165-196; req.file.buffer throws a TypeError when no file came
ZipStart ==
  /\ handler = "zip" /\ pc = "start"
  /\ IF req.file = NoFile
     THEN /\ err' = "TypeError" /\ pc' = "catch"
          /\ UNCHANGED <<lay, remaining>>
     ELSE /\ lay' = QueryLayout
          /\ remaining' = req.quantity
          /\ pc' = "loop"
          /\ err' = err
  /\ UNCHANGED <<app, handler, req, sheets, page, resp>>

\* lines 197-264: one pass of `while (remaining > 0)` up to the await of
\* sheetDoc.save(); its statements are those of part_002 lines 415-480.
\* The sheet drawn is held in `page` until it is stored.
ZipSheetDraw ==
  /\ handler = "zip" /\ pc = "loop"
  /\ remaining > 0
  /\ Len(sheets) < MaxSheets
  /\ LET sheet == DlSheetOf([remaining |-> remaining, perRow |-> lay.logosPerRow,
                             logoWidthPts |-> lay.logoWidthPts,
                             logoHeightPts |-> lay.logoHeightPts,
                             rotateAngle |-> req.rotateAngle, file |-> req.file])
     IN /\ page' = sheet
        /\ remaining' = remaining - Len(sheet.data.tiles)
  /\ pc' = "save"
  /\ UNCHANGED <<app, handler, req, lay, sheets, err, resp>>

\* lines 265-271: the saved sheet is stored under its name
ZipSheetPush ==
  /\ handler = "zip" /\ pc = "save"
  /\ sheets' = Append(sheets, page)
  /\ pc' = "loop"
  /\ UNCHANGED <<app, handler, req, lay, remaining, page, err, resp>>

\* JSZip's zip.file(name, data): the archive keeps one entry per name, and a
\* second file of the same name takes the place of the first
ZipFile(zip, sheet) ==
  IF \E i \in 1 .. Len(zip) : zip[i].name = sheet.name
  THEN [i \in 1 .. Len(zip) |-> IF zip[i].name = sheet.name THEN sheet ELSE zip[i]]
  ELSE Append(zip, sheet)

RECURSIVE ZipAll(_, _, _)
\* lines 284-287: generatedSheets.forEach(sheet => zip.file(...)) from i on
ZipAll(zip, ss, i) ==
  IF i > Len(ss) THEN zip ELSE ZipAll(ZipFile(zip, ss[i]), ss, i + 1)

\* lines 271-295
ZipRespond ==
  /\ handler = "zip" /\ pc = "loop"
  /\ ~(remaining > 0)
  /\ resp' = IF Len(sheets) = 1
             THEN [resp EXCEPT !.status = 200, !.contentType = "application/pdf",
                               !.filename = "sheet.name",
                               !.entries = <<sheets[1]>>, !.ended = TRUE]
             ELSE [resp EXCEPT !.status = 200, !.contentType = "application/zip",
                               !.filename = "gangsheets.zip",
                               !.entries = ZipAll(<<>>, sheets, 1), !.ended = TRUE]
  /\ pc' = "done"
  /\ UNCHANGED <<app, handler, req, lay, remaining, sheets, page, err>>

\* lines 297-300
ZipCatch ==
  /\ handler = "zip" /\ pc = "catch"
  /\ resp' = [resp EXCEPT !.status = 500,
                          !.message = "Error generating gang sheets",
                          !.ended = TRUE]
  /\ pc' = "failed"
  /\ UNCHANGED <<app, handler, req, lay, remaining, sheets, page, err>>

NextZip ==
  \/ ZipStart
  \/ ZipSheetDraw
  \/ ZipSheetPush
  \/ ZipRespond
  \/ ZipCatch

\* ======================================================= part_008 lines 23-179
\* the /merge handler that accepts PDF uploads only

PdfOnlySizes ==
  { <<288, 144>>, <<720, 6048>>, <<720, 15120>>, <<504, 900>>, <<1584, 720>>,
    <<1008, 1008>> }

InitPdfOnly ==
  /\ handler = "pdfonly"
  /\ pc = "validate"
  /\ req \in [file : { [ext |-> e, width |-> a[1], height |-> a[2]] :
                         e \in {"pdf", "PDF"}, a \in PdfOnlySizes }
                     \cup { [ext |-> "png", width |-> 1200, height |-> 600], NoFile },
              quantity : {0, 1, 2, MaxQty}, rotate : BOOLEAN]
  /\ lay = NoLayout
  /\ remaining = 0
  /\ sheets = <<>>
  /\ page = NoPage
  /\ err = ""
  /\ resp = NoResp
  /\ NoApp

\* lines 27-40
PdfOnlyValidate ==
  /\ handler = "pdfonly" /\ pc = "validate"
  /\ IF req.file = NoFile
     THEN err' = "No file uploaded" /\ pc' = "catch"
     ELSE IF InvalidQuantity(req.quantity)
     THEN err' = "Invalid quantity" /\ pc' = "catch"
     ELSE IF toLowerCase(req.file.ext) # "pdf"
     THEN err' = "Only PDF uploads supported in this stable version" /\ pc' = "catch"
     ELSE err' = err /\ pc' = "grid"
  /\ UNCHANGED <<app, handler, req, lay, remaining, sheets, page, resp>>

\* lines 42-71: the page is measured as uploaded, whatever `rotate` is
PdfOnlyGrid ==
  /\ handler = "pdfonly" /\ pc = "grid"
  /\ LET logoWidthPts == req.file.width
         logoHeightPts == req.file.height
         logosPerRow == JsFloorDiv(sheetWidthPts - safeMarginPts * 2 + spacingPts,
                                   logoWidthPts + spacingPts)
         rowsPerSheet == JsFloorDiv(maxHeightPts - safeMarginPts * 2 + spacingPts,
                                    logoHeightPts + spacingPts)
         logosPerSheet == logosPerRow * rowsPerSheet
         totalSheetsNeeded == JsCeilDiv(req.quantity, logosPerSheet)
         measured == [lay EXCEPT !.srcWidth = logoWidthPts, !.srcHeight = logoHeightPts,
                                 !.logoWidthPts = logoWidthPts,
                                 !.logoHeightPts = logoHeightPts,
                                 !.logosPerRow = logosPerRow, !.measured = TRUE]
     IN IF logosPerRow < 1
        THEN /\ err' = "Logo too wide for sheet"
             /\ pc' = "catch"
             /\ lay' = measured
        ELSE /\ lay' = [measured EXCEPT !.rowsPerSheet = rowsPerSheet,
                                        !.logosPerSheet = logosPerSheet,
                                        !.totalSheetsNeeded = totalSheetsNeeded]
             /\ pc' = IF totalSheetsNeeded = 1 THEN "single" ELSE "multi"
             /\ err' = err
  /\ UNCHANGED <<app, handler, req, remaining, sheets, page, resp>>

\* lines 94-108
PdfOnlySingleBegin ==
  /\ handler = "pdfonly" /\ pc = "single"
  /\ page' = NewPage(req.quantity)
  /\ pc' = "singleDraw"
  /\ UNCHANGED <<app, handler, req, lay, remaining, sheets, err, resp>>

\* lines 110-113 and drawLogo (lines 74-91): the page handed to drawPage is
\* the PDFPage that copyPages returned (line 50), and drawPage, which asserts
\* that it is given a PDFEmbeddedPage, throws a TypeError on the first tile;
\* nothing is drawn and lines 114-127 are not reached
PdfOnlySingleDraw ==
  /\ handler = "pdfonly" /\ pc = "singleDraw"
  /\ page.drawn < req.quantity
  /\ err' = "TypeError"
  /\ pc' = "catch"
  /\ UNCHANGED <<app, handler, req, lay, remaining, sheets, page, resp>>

\* lines 130-136
PdfOnlyMultiBegin ==
  /\ handler = "pdfonly" /\ pc = "multi"
  /\ resp' = [resp EXCEPT !.contentType = "application/zip",
                          !.filename = "gangsheets.zip", !.piped = TRUE]
  /\ remaining' = req.quantity
  /\ pc' = "sheet"
  /\ UNCHANGED <<app, handler, req, lay, sheets, page, err>>

\* lines 138-152; totalSheetsNeeded is finite and above 1, or Infinity when
\* no row fits
PdfOnlySheetBegin ==
  /\ handler = "pdfonly" /\ pc = "sheet"
  /\ Len(sheets) < lay.totalSheetsNeeded
  /\ IsFinite(lay.totalSheetsNeeded) \/ Len(sheets) < MaxSheets
  /\ page' = NewPage(JsMin(remaining, lay.logosPerSheet))
  /\ pc' = "sheetDraw"
  /\ UNCHANGED <<app, handler, req, lay, remaining, sheets, err, resp>>

\* lines 154-157 and drawLogo (lines 74-91): drawPage throws a TypeError on
\* the first tile, as in the single-sheet branch; the catch then answers on
\* the response the archive is piped to
PdfOnlySheetDraw ==
  /\ handler = "pdfonly" /\ pc = "sheetDraw"
  /\ page.drawn < page.logos
  /\ err' = "TypeError"
  /\ pc' = "catch"
  /\ UNCHANGED <<app, handler, req, lay, remaining, sheets, page, resp>>

\* lines 165-172: reached only by a sheet without tiles, when no row fits
PdfOnlySheetAppend ==
  /\ handler = "pdfonly" /\ pc = "sheetDraw"
  /\ ~(page.drawn < page.logos)
  /\ sheets' = Append(sheets, Sheet(page))
  /\ resp' = [resp EXCEPT !.entries = Append(@, Filename("_", SHEET_WIDTH_INCH, page.inches))]
  /\ pc' = "sheet"
  /\ UNCHANGED <<app, handler, req, lay, remaining, page, err>>

\* lines 175-178
PdfOnlyCatch ==
  /\ handler = "pdfonly" /\ pc = "catch"
  /\ resp' = [resp EXCEPT !.status = 500, !.message = err, !.ended = TRUE]
  /\ pc' = "failed"
  /\ UNCHANGED <<app, handler, req, lay, remaining, sheets, page, err>>

\* The sends of lines 120-127 and the archive.finalize of line 174 are never
\* reached: every sheet with a tile ends in the catch, and the loop of sheets
\* without tiles has no end.
NextPdfOnly ==
  \/ PdfOnlyValidate
  \/ PdfOnlyGrid
  \/ PdfOnlySingleBegin
  \/ PdfOnlySingleDraw
  \/ PdfOnlyMultiBegin
  \/ PdfOnlySheetBegin
  \/ PdfOnlySheetDraw
  \/ PdfOnlySheetAppend
  \/ PdfOnlyCatch

\* ======================================================= part_002 lines 26-186
\* the earliest /merge handler: tiles are drawn on a page of the maximum
\* height, which is resized afterwards

EarlySizes == { <<288, 144>>, <<720, 6048>>, <<1584, 720>>, <<1008, 1008>> }

InitEarly ==
  /\ handler = "early"
  /\ pc = "start"
  /\ req \in [file : { [ext |-> "pdf", width |-> a[1], height |-> a[2]] : a \in EarlySizes }
                     \cup {NoFile},
              quantity : {0, 1, 2, 3, MaxQty}, rotate : BOOLEAN]
  /\ lay = NoLayout
  /\ remaining = 0
  /\ sheets = <<>>
  /\ page = NoPage
  /\ err = ""
  /\ resp = NoResp
  /\ NoApp

\* lines 27-75
EarlyStart ==
  /\ handler = "early" /\ pc = "start"
  /\ IF req.file = NoFile
     THEN err' = "No file uploaded" /\ pc' = "catch" /\ lay' = lay
     ELSE IF InvalidQuantity(req.quantity)
     THEN err' = "Invalid quantity" /\ pc' = "catch" /\ lay' = lay
     ELSE
       LET logoWidth == LayoutSize(req.rotate, req.file.width, req.file.height)[1]
           logoHeight == LayoutSize(req.rotate, req.file.width, req.file.height)[2]
           logosPerRow == JsFloorDiv(sheetWidthPts - safeMarginPts * 2 + spacingPts,
                                     logoWidth + spacingPts)
           rowsPerSheet == JsFloorDiv(maxHeightPts - safeMarginPts * 2 + spacingPts,
                                      logoHeight + spacingPts)
           logosPerSheet == logosPerRow * rowsPerSheet
           totalSheetsNeeded == JsCeilDiv(req.quantity, logosPerSheet)
           measured == [lay EXCEPT !.srcWidth = req.file.width,
                                   !.srcHeight = req.file.height,
                                   !.logoWidthPts = logoWidth,
                                   !.logoHeightPts = logoHeight,
                                   !.logosPerRow = logosPerRow, !.measured = TRUE]
       IN IF logosPerRow < 1
          THEN /\ err' = "Logo too wide for sheet"
               /\ pc' = "catch"
               /\ lay' = measured
          ELSE /\ lay' = [measured EXCEPT !.rowsPerSheet = rowsPerSheet,
                                          !.logosPerSheet = logosPerSheet,
                                          !.totalSheetsNeeded = totalSheetsNeeded]
               /\ pc' = IF totalSheetsNeeded = 1 THEN "single" ELSE "multi"
               /\ err' = err
  /\ UNCHANGED <<app, handler, req, remaining, sheets, page, resp>>

\* lines 82-84 and 139-145: the first page of the document is of the maximum
\* height, with the cursor under its top margin; `pages` counts the pages
\* added to the document
EarlyPage(logos, pages) ==
  [pages |-> pages] @@
  [NoPage EXCEPT !.height = maxHeightPts,
                 !.inches = MAX_SHEET_HEIGHT_INCH,
                 !.logos = logos,
                 !.xCursor = safeMarginPts,
                 !.yCursor = maxHeightPts - safeMarginPts - lay.logoHeightPts]

\* lines 88-95 and 150-156: drawPage with x and y only draws the embedded page
\* at its own size, unrotated
EarlyDrawStep(p) ==
  [DrawStep(p) EXCEPT !.tiles = Append(p.tiles, DrawCall(p.xCursor, p.yCursor,
                                                         lay.srcWidth, lay.srcHeight, 0))]

\* lines 99-106 and 160-166: setSize of the first page to the rounded used
\* height; what is drawn on the page stays where it is
EarlyResize(p) ==
  LET usedRows == JsCeilDiv(p.logos, lay.logosPerRow)
      usedHeightPts == usedRows * logoTotalHeight + safeMarginPts * 2 - spacingPts
      roundedHeightPts == JsCeilDiv(usedHeightPts, POINTS_PER_INCH) * POINTS_PER_INCH
  IN [p EXCEPT !.height = roundedHeightPts,
               !.inches = JsCeilDiv(roundedHeightPts, POINTS_PER_INCH),
               !.rows = usedRows]

\* The record kept of a finished document: its first page, and how many
\* pages it has (the others are blank, sheetWidthPts x maxHeightPts).
EarlySheet(p) == [pages |-> p.pages] @@ Sheet(p)

\* lines 78-84: no page is added yet
EarlySingleBegin ==
  /\ handler = "early" /\ pc = "single"
  /\ page' = EarlyPage(req.quantity, 0)
  /\ pc' = "singleDraw"
  /\ UNCHANGED <<app, handler, req, lay, remaining, sheets, err, resp>>

\* lines 86-96: for every tile, addPage (line 89) adds one more page of the
\* maximum height to the document, and the tile is drawn on the first page
\* (line 90)
EarlySingleDraw ==
  /\ handler = "early" /\ pc = "singleDraw"
  /\ page.drawn < req.quantity
  /\ page' = [EarlyDrawStep(page) EXCEPT !.pages = @ + 1]
  /\ UNCHANGED <<app, handler, pc, req, lay, remaining, sheets, err, resp>>

\* lines 98-108: the first page is cut to the height used, up to the await
\* of pdfDoc.save()
EarlySingleResize ==
  /\ handler = "early" /\ pc = "singleDraw"
  /\ ~(page.drawn < req.quantity)
  /\ page' = EarlyResize(page)
  /\ pc' = "singleSave"
  /\ UNCHANGED <<app, handler, req, lay, remaining, sheets, err, resp>>

\* lines 108-116: the saved document is sent
EarlySingleSend ==
  /\ handler = "early" /\ pc = "singleSave"
  /\ sheets' = Append(sheets, EarlySheet(page))
  /\ resp' = [resp EXCEPT !.status = 200, !.contentType = "application/pdf",
                          !.filename = "gangsheet", !.ended = TRUE]
  /\ pc' = "done"
  /\ UNCHANGED <<app, handler, req, lay, remaining, page, err>>

\* lines 119-132
EarlyMultiBegin ==
  /\ handler = "early" /\ pc = "multi"
  /\ resp' = [resp EXCEPT !.contentType = "application/zip",
                          !.filename = "gangsheets.zip", !.piped = TRUE]
  /\ remaining' = req.quantity
  /\ pc' = "sheet"
  /\ UNCHANGED <<app, handler, req, lay, sheets, page, err>>

\* lines 133-147: the document gets its one page (line 139)
EarlySheetBegin ==
  /\ handler = "early" /\ pc = "sheet"
  /\ Len(sheets) < lay.totalSheetsNeeded
  /\ IsFinite(lay.totalSheetsNeeded) \/ Len(sheets) < MaxSheets
  /\ page' = EarlyPage(JsMin(remaining, lay.logosPerSheet), 1)
  /\ pc' = "sheetDraw"
  /\ UNCHANGED <<app, handler, req, lay, remaining, sheets, err, resp>>

\* lines 148-157
EarlySheetDraw ==
  /\ handler = "early" /\ pc = "sheetDraw"
  /\ page.drawn < page.logos
  /\ page' = EarlyDrawStep(page)
  /\ remaining' = remaining - 1
  /\ UNCHANGED <<app, handler, pc, req, lay, sheets, err, resp>>

\* lines 159-169: the page is cut to the height used, up to the await of
\* sheetDoc.save()
EarlySheetResize ==
  /\ handler = "early" /\ pc = "sheetDraw"
  /\ ~(page.drawn < page.logos)
  /\ page' = EarlyResize(page)
  /\ pc' = "sheetSave"
  /\ UNCHANGED <<app, handler, req, lay, remaining, sheets, err, resp>>

\* lines 169-179: the saved sheet is appended to the archive
EarlySheetAppend ==
  /\ handler = "early" /\ pc = "sheetSave"
  /\ sheets' = Append(sheets, EarlySheet(page))
  /\ resp' = [resp EXCEPT !.entries = Append(@, Filename("_", SHEET_WIDTH_INCH,
                                                         page.inches))]
  /\ pc' = "sheet"
  /\ UNCHANGED <<app, handler, req, lay, remaining, page, err>>

\* line 181
EarlyFinalize ==
  /\ handler = "early" /\ pc = "sheet"
  /\ ~(Len(sheets) < lay.totalSheetsNeeded)
  /\ resp' = [resp EXCEPT !.status = 200, !.ended = TRUE]
  /\ pc' = "done"
  /\ UNCHANGED <<app, handler, req, lay, remaining, sheets, page, err>>

\* lines 182-185
EarlyCatch ==
  /\ handler = "early" /\ pc = "catch"
  /\ resp' = [resp EXCEPT !.status = 500, !.message = err, !.ended = TRUE]
  /\ pc' = "failed"
  /\ UNCHANGED <<app, handler, req, lay, remaining, sheets, page, err>>

NextEarly ==
  \/ EarlyStart
  \/ EarlySingleBegin
  \/ EarlySingleDraw
  \/ EarlySingleResize
  \/ EarlySingleSend
  \/ EarlyMultiBegin
  \/ EarlySheetBegin
  \/ EarlySheetDraw
  \/ EarlySheetResize
  \/ EarlySheetAppend
  \/ EarlyFinalize
  \/ EarlyCatch

\* ========================================================== specifications
\* The three handlers that lay a grid out: index.js (both) and part_003.
Init == InitMerge \/ InitWhile \/ InitFirst
Next == NextMerge \/ NextWhile \/ NextFirst
Spec == Init /\ [][Next]_vars

\* Scenario 1 of the specification on the handler of index.js lines 24-229:
\* the 4 x 2 inch asset, as a PDF and as a 1200 x 600 pixel PNG, 50 copies.
InitScenario1 ==
  /\ handler = "merge"
  /\ pc = "validate"
  /\ req \in [file : {[ext |-> "pdf", width |-> 288, height |-> 144],
                      [ext |-> "png", width |-> 1200, height |-> 600]},
              quantity : {50}, rotate : BOOLEAN]
  /\ lay = NoLayout
  /\ remaining = 0
  /\ sheets = <<>>
  /\ page = NoPage
  /\ err = ""
  /\ resp = NoResp
  /\ NoApp

NextScenario1 ==
  \/ MergeValidate
  \/ MergeKind
  \/ MergeMeasure
  \/ MergeGrid
  \/ MergeSingleBegin
  \/ MergeSingleDraw
  \/ MergeSingleSend

SpecScenario1 == InitScenario1 /\ [][NextScenario1]_vars

\* Scenario 2 of the specification on the handler of index.js lines 24-229:
\* the 4 x 2 inch asset, as a PDF and as a PNG, 5000 copies; each sheet's
\* drawing loop is one step.
InitScenario2 ==
  /\ handler = "merge"
  /\ pc = "validate"
  /\ req \in [file : {[ext |-> "pdf", width |-> 288, height |-> 144],
                      [ext |-> "png", width |-> 1200, height |-> 600]},
              quantity : {5000}, rotate : BOOLEAN]
  /\ lay = NoLayout
  /\ remaining = 0
  /\ sheets = <<>>
  /\ page = NoPage
  /\ err = ""
  /\ resp = NoResp
  /\ NoApp

NextScenario2 ==
  \/ MergeValidate
  \/ MergeKind
  \/ MergeMeasure
  \/ MergeGrid
  \/ MergeMultiBegin
  \/ MergeSheetBegin
  \/ MergeSheetDrawAll
  \/ MergeSheetAppend
  \/ MergeFinalize

SpecScenario2 == InitScenario2 /\ [][NextScenario2]_vars

\* The JSZip handler of part_007 lines 163-301.
SpecZip == InitZip /\ [][NextZip]_vars

\* One process answering several requests to the handler of index.js lines
\* 24-229, one after the other.
InitRepeat ==
  /\ handler = "merge"
  /\ pc = "validate"
  /\ req \in RepeatRequests
  /\ lay = NoLayout
  /\ remaining = 0
  /\ sheets = <<>>
  /\ page = NoPage
  /\ err = ""
  /\ resp = NoResp
  /\ NoApp

NextRepeat == NextMerge \/ MergeAgain

SpecRepeat == InitRepeat /\ [][NextRepeat]_vars

\* One process serving several calls of the handler of index.js lines 24-229
\* at once: while a call waits at an await, or once it has answered, the
\* event loop takes up another call, newly arrived or waiting. `earlier`
\* holds the other calls of the process, answered or waiting.
ConcurrentSizes == { <<288, 144>>, <<720, 6048>>, <<1584, 720>> }

ConcurrentRequests ==
  [file : { [ext |-> "pdf", width |-> a[1], height |-> a[2]] : a \in ConcurrentSizes }
          \cup { [ext |-> "png",
                   width |-> (a[1] * PNG_DEFAULT_DPI) \div POINTS_PER_INCH,
                   height |-> (a[2] * PNG_DEFAULT_DPI) \div POINTS_PER_INCH] :
                    a \in ConcurrentSizes },
   quantity : {MaxQty}, rotate : BOOLEAN]
  \cup [file : {NoFile}, quantity : {1}, rotate : {FALSE}]

\* The running call: the request and the bindings of lines 26-224, which
\* belong to the call of the async function that declares them.
Call ==
  [req |-> req, pc |-> pc, lay |-> lay, remaining |-> remaining,
   sheets |-> sheets, page |-> page, err |-> err, resp |-> resp]

\* The running call waits at an await: lines 48 and 65-66 (load, create and
\* embedPng), 150-151 and 192-193 (create and embedFunc), 171 and 215 (save).
Suspended ==
  \/ pc \in {"measure", "single"}
  \/ pc = "singleDraw" /\ ~(page.drawn < req.quantity)
  \/ pc = "sheet" /\ Len(sheets) < lay.totalSheetsNeeded
  \/ pc = "sheetDraw" /\ ~(page.drawn < page.logos)

\* A call that has sent its answer.
Answered(c) == c.pc \in {"done", "failed"}

\* line 24: a request arrives while the running call waits or has answered,
\* and the handler is called with bindings of its own
MergeArrive ==
  /\ handler = "merge"
  /\ Suspended \/ Answered(Call)
  /\ Len(earlier) < MaxCalls - 1
  /\ earlier' = Append(earlier, Call)
  /\ req' \in ConcurrentRequests
  /\ pc' = "validate"
  /\ lay' = FreshLocals.lay
  /\ remaining' = FreshLocals.remaining
  /\ sheets' = FreshLocals.sheets
  /\ page' = FreshLocals.page
  /\ err' = FreshLocals.err
  /\ resp' = FreshLocals.resp
  /\ UNCHANGED <<handler, clients, appLocals, served>>

\* The promise a waiting call awaits is settled, and the event loop goes on
\* with that call where it waited.
MergeResume ==
  /\ handler = "merge"
  /\ Suspended \/ Answered(Call)
  /\ \E k \in 1 .. Len(earlier) :
       /\ ~Answered(earlier[k])
       /\ earlier' = [earlier EXCEPT ![k] = Call]
       /\ req' = earlier[k].req
       /\ pc' = earlier[k].pc
       /\ lay' = earlier[k].lay
       /\ remaining' = earlier[k].remaining
       /\ sheets' = earlier[k].sheets
       /\ page' = earlier[k].page
       /\ err' = earlier[k].err
       /\ resp' = earlier[k].resp
  /\ UNCHANGED <<handler, clients, appLocals, served>>

InitConcurrent ==
  /\ handler = "merge"
  /\ pc = "validate"
  /\ req \in ConcurrentRequests
  /\ lay = NoLayout
  /\ remaining = 0
  /\ sheets = <<>>
  /\ page = NoPage
  /\ err = ""
  /\ resp = NoResp
  /\ NoApp

NextConcurrent == NextMerge \/ MergeArrive \/ MergeResume

SpecConcurrent == InitConcurrent /\ [][NextConcurrent]_vars

\* The handler of index.js lines 24-229 when the awaited calls of its
\* multi-sheet loop may reject.
NextFault == NextMerge \/ MergeSheetThrow
SpecFault == InitMerge /\ [][NextFault]_vars

\* index.js line 235: the upload and quantity just answered by the for-loop
\* handler are posted to the while-loop handler, which reads the upload as
\* a PDF and the rotation as an angle
PostToWhile ==
  /\ handler = "merge" /\ pc = "done"
  /\ lay.assetType = "pdf"
  /\ earlier = <<>>
  /\ earlier' = Append(earlier, Outcome)
  /\ handler' = "while"
  /\ pc' = "start"
  /\ req' = [file |-> req.file, quantity |-> req.quantity,
             rotateAngle |-> IF req.rotate THEN 90 ELSE 0]
  /\ lay' = NoLayout
  /\ remaining' = 0
  /\ sheets' = <<>>
  /\ page' = NoPage
  /\ err' = ""
  /\ resp' = NoResp
  /\ UNCHANGED <<clients, appLocals, served>>

\* The two handlers of index.js, lines 24-229 and lines 235-349, answering
\* the same upload one after the other.
NextBoth ==
  \/ NextMerge
  \/ PostToWhile
  \/ WhileStart
  \/ WhileSheetBegin
  \/ WhileSheetPage
  \/ WhileDraw
  \/ WhileSheetPush
  \/ WhileRespond

SpecBoth == InitMerge /\ [][NextBoth]_vars

\* The PDF-only handler of part_008 lines 23-179.
SpecPdfOnly == InitPdfOnly /\ [][NextPdfOnly]_vars

\* The earliest handler of part_002 lines 26-186.
SpecEarly == InitEarly /\ [][NextEarly]_vars

\* The priced handler of part_002 lines 244-351.
SpecPriced == InitPriced /\ [][NextPriced]_vars

\* The tier lookup of part_002 lines 220-241.
SpecTier == InitTier /\ [][NextTier]_vars

\* Two concurrent requests to the download-link server of part_002 lines
\* 367-522, and the downloads that follow their links.
SpecDownload == InitDownload /\ [][NextDownload]_vars

\* ================================================================== claims
RECURSIVE TotalTiles(_)
\* The tiles drawn over a list of sheets.
TotalTiles(ss) ==
  IF ss = <<>> THEN 0 ELSE Len(ss[1].tiles) + TotalTiles(Tail(ss))

\* At least one column and one row of the asset fit on a sheet.
Fits == lay.logosPerRow >= 1 /\ lay.rowsPerSheet >= 1

\* C1 (conservation): when the handler of index.js lines 24-229 has sent its
\* response for an asset of which a column and a row fit, the tiles drawn
\* over all generated sheets number exactly the requested quantity, in the
\* single-sheet branch and in the multi-sheet branch, and in the multi-sheet
\* branch `remaining` is 0 after the last sheet.
C1_Conservation ==
  (handler = "merge" /\ pc = "done" /\ Fits) =>
    /\ TotalTiles(sheets) = req.quantity
    /\ Len(sheets) = lay.totalSheetsNeeded
    /\ lay.totalSheetsNeeded # 1 => remaining = 0

C1_Witness ==
  /\ handler = "merge" /\ pc = "done" /\ Fits
  /\ Len(sheets) = 3
  /\ TotalTiles(sheets) = req.quantity
  /\ remaining = 0

\* A tile lies within the margins of a sheet of the given height.
InsideMargins(t, sheetHeight) ==
  LET b == BBox(t)
  IN /\ b.x0 >= safeMarginPts
     /\ b.x1 <= sheetWidthPts - safeMarginPts
     /\ b.y0 >= safeMarginPts
     /\ b.y1 <= sheetHeight - safeMarginPts

\* C2 (no clip): every tile drawLogo has drawn, on a finished sheet or on
\* the page being drawn, for PDF and PNG assets, rotated or not, covers a
\* bounding box inside [margin, sheetWidth - margin] x [margin, sheetHeight
\* - margin] of its sheet.
C2_NoClip ==
  handler = "merge" =>
    /\ \A i \in 1 .. Len(sheets) : \A k \in 1 .. Len(sheets[i].tiles) :
         InsideMargins(sheets[i].tiles[k], sheets[i].height)
    /\ \A k \in 1 .. Len(page.tiles) : InsideMargins(page.tiles[k], page.height)

\* C4 (too tall): once the grid of the handler of index.js lines 24-229 is
\* computed, an asset of which not even one row fits (rowsPerSheet < 1)
\* makes the request end in the error path with no sheet generated; and no
\* sheet without tiles is ever produced.
C4_TooTallIsAnError ==
  handler = "merge" =>
    /\ (pc \notin {"validate", "kind", "measure", "grid"} /\ lay.rowsPerSheet < 1) =>
         (pc \in {"catch", "failed"} /\ sheets = <<>>)
    /\ \A i \in 1 .. Len(sheets) : Len(sheets[i].tiles) >= 1

\* C5 (too wide): once the grid step of the handler of index.js lines 24-229
\* has run, the error thrown is 'Logo too wide for sheet' exactly when the
\* oriented asset width exceeds sheetWidth - 2*margin; when it is thrown no
\* page exists and nothing of the response is written before the catch
\* block answers, and no sheet is ever produced.
C5_TooWide ==
  (handler = "merge" /\ pc \notin {"validate", "kind", "measure", "grid"}) =>
    /\ (err = "Logo too wide for sheet") <=>
         (lay.measured /\ lay.logoWidthPts > sheetWidthPts - 2 * safeMarginPts)
    /\ (err = "Logo too wide for sheet") =>
         /\ sheets = <<>> /\ page = NoPage
         /\ pc \in {"catch", "failed"}
         /\ pc = "catch" => resp = NoResp
         /\ pc = "failed" => (resp.status = 500 /\ resp.message = err
                               /\ resp.entries = <<>> /\ ~resp.piped)

C5_Witness ==
  /\ handler = "merge" /\ pc = "failed"
  /\ err = "Logo too wide for sheet"
  /\ lay.logoWidthPts > sheetWidthPts - 2 * safeMarginPts
  /\ sheets = <<>>

\* C3 (termination of the while loop): in the handler of index.js lines
\* 235-349, for a quantity >= 1, every pass of `while (remaining > 0)` places
\* at least one tile, so every sheet pushed holds a tile and the loop makes
\* at most `qty` passes before `remaining` reaches 0.
C3_LoopMakesProgress ==
  (handler = "while" /\ req.quantity >= 1) =>
    /\ \A i \in 1 .. Len(sheets) : Len(sheets[i].tiles) >= 1
    /\ Len(sheets) <= req.quantity

\* rows * height + (rows - 1) * spacing + 2 * margin
RawHeight(rows) ==
  rows * lay.logoHeightPts + (rows - 1) * spacingPts + 2 * safeMarginPts

\* C7 (height bounds): every sheet generated by the handler of index.js
\* lines 24-229 and by the first-sheet handler of part_003 has a page height
\* that is a whole number of inches, is at least the raw height of the rows
\* drawn on it, and is at most the maximum sheet height of 200 inches.
C7_HeightBounds ==
  handler \in {"merge", "first"} =>
    \A i \in 1 .. Len(sheets) :
      /\ IsFinite(sheets[i].height)
      /\ sheets[i].height % POINTS_PER_INCH = 0
      /\ sheets[i].height >= RawHeight(sheets[i].rows)
      /\ sheets[i].height <= MAX_SHEET_HEIGHT_INCH * POINTS_PER_INCH

\* A sheet of each handler whose raw height is no whole number of inches,
\* and a sheet of exactly the maximum height.
C7_Witness ==
  /\ handler \in {"merge", "first"}
  /\ sheets # <<>>
  /\ sheets[1].rows >= 1
  /\ \/ sheets[1].height > RawHeight(sheets[1].rows)
     \/ sheets[1].height = MAX_SHEET_HEIGHT_INCH * POINTS_PER_INCH

\* C10 (scenario 1): for the un-rotated asset of 288 x 144 points and a
\* quantity of 50, the handler of index.js lines 24-229 computes 4 tiles per
\* row, draws 13 rows, and produces exactly one sheet, 33 inches high: the
\* raw height of 13 rows (2322 points) rounded up to the next whole inch.
C10_Scenario1 ==
  (/\ handler = "merge" /\ pc = "done"
   /\ lay.srcWidth = 288 /\ lay.srcHeight = 144
   /\ ~req.rotate /\ req.quantity = 50) =>
    /\ lay.logosPerRow = 4
    /\ lay.totalSheetsNeeded = 1
    /\ Len(sheets) = 1
    /\ sheets[1].rows = 13
    /\ Len(sheets[1].tiles) = 50
    /\ RawHeight(13) = 2322
    /\ sheets[1].height = 33 * POINTS_PER_INCH
    /\ sheets[1].name.height = 33

C10_Witness ==
  /\ handler = "merge" /\ pc = "done"
  /\ lay.assetType = "pdf"
  /\ lay.srcWidth = 288 /\ lay.srcHeight = 144
  /\ ~req.rotate /\ req.quantity = 50
  /\ Len(sheets) = 1 /\ Len(sheets[1].tiles) = 50

\* The first entry of COST_TABLE, in ascending order, whose length is >= L.
FirstTierAtLeast(L) ==
  CHOOSE i \in 1 .. Len(COST_TABLE) :
    /\ COST_TABLE[i].length >= L
    /\ \A j \in 1 .. i - 1 : COST_TABLE[j].length < L

\* C8 (tier lookup): getCostForLength(L) is the cost of the first entry of
\* COST_TABLE whose length is >= L, and the cost of the last, 200-inch entry
\* when L is above every length; 37 inches cost the 48-inch price of 21.12,
\* not the 36-inch price; and the cost does not decrease as L grows.
C8_TierLookup ==
  (handler = "tier" /\ pc = "returned") =>
    /\ \A i \in 1 .. Len(COST_TABLE) - 1 : COST_TABLE[i].length < COST_TABLE[i + 1].length
    /\ IF req.length <= COST_TABLE[Len(COST_TABLE)].length
       THEN resp.cost = COST_TABLE[FirstTierAtLeast(req.length)].cost
       ELSE resp.cost = COST_TABLE[Len(COST_TABLE)].cost
    /\ COST_TABLE[Len(COST_TABLE)].length = 200
    /\ req.length = 37 => (resp.cost = 2112 /\ resp.cost # COST_TABLE[3].cost)
    /\ req.length <= req.other => resp.cost <= resp.otherCost

C8_Witness ==
  /\ handler = "tier" /\ pc = "returned"
  /\ req.length = 37 /\ resp.cost = 2112
  /\ req.other > 200 /\ resp.otherCost = 7568

\* C6 (request isolation): a GET /download/<id> that follows a link returned
\* to a request is answered with the sheet that this request generated for
\* the link, whatever other requests did before or in between.
C6_RequestIsolation ==
  (handler = "download" /\ served.client \in Clients) =>
    /\ served.found
    /\ served.sheet = clients[served.client].generatedSheets[served.id + 1]

\* C11 (scenario 2): for the un-rotated asset of 288 x 144 points and a
\* quantity of 5000, the handler of index.js lines 24-229 produces more than
\* one sheet; every sheet but the last holds logosPerRow * rowsPerSheet tiles
\* and is 200 inches high; the last sheet holds the tiles that remain and is
\* lower than 200 inches.
C11_Scenario2 ==
  (/\ handler = "merge" /\ lay.measured
   /\ lay.srcWidth = 288 /\ lay.srcHeight = 144
   /\ ~req.rotate /\ req.quantity = 5000) =>
    /\ \A i \in 1 .. Len(sheets) :
         IF i < lay.totalSheetsNeeded
         THEN /\ Len(sheets[i].tiles) = lay.logosPerRow * lay.rowsPerSheet
              /\ sheets[i].height = MAX_SHEET_HEIGHT_INCH * POINTS_PER_INCH
              /\ sheets[i].name.height = MAX_SHEET_HEIGHT_INCH
         ELSE /\ Len(sheets[i].tiles)
                   = 5000 - (i - 1) * lay.logosPerRow * lay.rowsPerSheet
              /\ Len(sheets[i].tiles) >= 1
              /\ sheets[i].height < MAX_SHEET_HEIGHT_INCH * POINTS_PER_INCH
    /\ pc = "done" => (Len(sheets) > 1 /\ Len(sheets) = lay.totalSheetsNeeded
                       /\ Len(resp.entries) = Len(sheets))

C11_Witness ==
  /\ handler = "merge" /\ pc = "done"
  /\ req.quantity = 5000 /\ ~req.rotate
  /\ Len(sheets) = 16
  /\ Len(sheets[15].tiles) = 320 /\ sheets[15].height = 14400
  /\ Len(sheets[16].tiles) = 200 /\ sheets[16].height = 9000

\* The x of the un-rotated cell of the k-th tile drawn on a sheet.
CellX(k) == safeMarginPts + ((k - 1) % lay.logosPerRow) * logoTotalWidth

\* C12 (scenario 3): with rotate=true the handler of index.js lines 24-229
\* lays out with the swapped width and height, and every rotated PDF tile is
\* drawn with an x equal to its cell's x plus the oriented width, the width
\* logosPerRow was computed from; for square and non-square assets alike.
C12_RotationAnchor ==
  (handler = "merge" /\ lay.measured /\ req.rotate) =>
    /\ lay.logoWidthPts = lay.srcHeight
    /\ lay.logoHeightPts = lay.srcWidth
    /\ lay.assetType = "pdf" =>
         /\ \A i \in 1 .. Len(sheets) : \A k \in 1 .. Len(sheets[i].tiles) :
              sheets[i].tiles[k].x = CellX(k) + lay.logoWidthPts
         /\ \A k \in 1 .. Len(page.tiles) :
              page.tiles[k].x = CellX(k) + lay.logoWidthPts

\* C13 (output bundling): in the handler of part_007 lines 163-301, one
\* generated sheet is answered as that sheet's PDF, and N > 1 generated sheets
\* are answered with a ZIP archive of exactly N entries, one per generated
\* sheet, none missing and none replaced.
C13_Bundling ==
  (handler = "zip" /\ pc = "done") =>
    /\ Len(sheets) = 1 =>
         (resp.contentType = "application/pdf" /\ resp.entries = <<sheets[1]>>)
    /\ Len(sheets) > 1 =>
         /\ resp.contentType = "application/zip"
         /\ Len(resp.entries) = Len(sheets)
         /\ \A i \in 1 .. Len(sheets) :
              \E j \in 1 .. Len(resp.entries) : resp.entries[j] = sheets[i]

\* The errors of the handler of index.js lines 24-229 that the caller's
\* input causes.
ValidationErrors ==
  { "No file uploaded", "Invalid quantity",
    "Unsupported file type. Please upload PDF or PNG.", "Logo too wide for sheet" }

\* C14 (error classification): the handler of index.js lines 24-229 answers
\* a failure caused by the caller's input (no file, invalid quantity,
\* unsupported file type, logo too wide) with a 4xx status and any other
\* failure with a 5xx status, always with a message.
C14_ErrorClasses ==
  (handler = "merge" /\ pc = "failed") =>
    /\ resp.message # ""
    /\ IF err \in ValidationErrors
       THEN resp.status \in 400 .. 499
       ELSE resp.status \in 500 .. 599

\* C15 (quantity validation): in the handler of index.js lines 24-229, once
\* validation has run, a request with a file whose quantity is missing or
\* not a number (NaN), zero or negative has the error 'Invalid quantity', is
\* on the error path, and no asset was measured, no layout computed, no page
\* opened and no sheet produced; without a file the error is 'No file
\* uploaded' whatever the quantity; and no valid quantity gets the error.
C15_InvalidQuantity ==
  (handler = "merge" /\ pc # "validate") =>
    /\ (req.file # NoFile /\ (req.quantity = NaN \/ req.quantity <= 0)) =>
         /\ err = "Invalid quantity"
         /\ pc \in {"catch", "failed"}
         /\ lay = NoLayout /\ page = NoPage /\ sheets = <<>> /\ remaining = 0
         /\ resp.entries = <<>> /\ ~resp.piped
         /\ pc = "failed" => resp.message = "Invalid quantity"
    /\ req.file = NoFile => err = "No file uploaded"
    /\ err = "Invalid quantity" =>
         (req.file # NoFile /\ (req.quantity = NaN \/ req.quantity <= 0))

C15_Witness ==
  /\ handler = "merge" /\ pc = "failed"
  /\ req.file \in PdfFiles \cup PngFiles
  /\ req.quantity = 0
  /\ err = "Invalid quantity" /\ resp.message = "Invalid quantity"
  /\ sheets = <<>> /\ lay = NoLayout

\* C16 (unsupported asset kind): in the handler of index.js lines 24-229,
\* once a validated request's asset was dispatched on, a file name ending,
\* in any letter case, in neither .pdf nor .png has the error 'Unsupported
\* file type. Please upload PDF or PNG.' and no layout and no sheet; a name
\* ending in .pdf is measured as a PDF page, in points, and one ending in
\* .png as a PNG image, in pixels at 300 dpi.
C16_UnsupportedKind ==
  (/\ handler = "merge" /\ pc \notin {"validate", "kind", "measure"}
   /\ req.file # NoFile /\ req.quantity >= 1) =>
    /\ req.file.ext \notin {"pdf", "PDF", "png", "PNG"} =>
         /\ err = "Unsupported file type. Please upload PDF or PNG."
         /\ pc \in {"catch", "failed"}
         /\ lay = NoLayout /\ page = NoPage /\ sheets = <<>>
         /\ resp.entries = <<>> /\ ~resp.piped
    /\ req.file.ext \in {"pdf", "PDF"} =>
         /\ lay.measured /\ lay.assetType = "pdf"
         /\ lay.srcWidth = req.file.width /\ lay.srcHeight = req.file.height
    /\ req.file.ext \in {"png", "PNG"} =>
         /\ lay.measured /\ lay.assetType = "png"
         /\ lay.srcWidth * PNG_DEFAULT_DPI = req.file.width * POINTS_PER_INCH
         /\ lay.srcHeight * PNG_DEFAULT_DPI = req.file.height * POINTS_PER_INCH
    /\ err = "Unsupported file type. Please upload PDF or PNG." =>
         req.file.ext \notin {"pdf", "PDF", "png", "PNG"}

C16_Witness ==
  /\ handler = "merge" /\ pc = "failed"
  /\ req.file.ext = "jpg" /\ req.quantity >= 1
  /\ err = "Unsupported file type. Please upload PDF or PNG."
  /\ sheets = <<>>

\* The calls of the process that have sent their answer.
AnsweredCalls ==
  { earlier[k] : k \in { j \in 1 .. Len(earlier) : Answered(earlier[j]) } }
    \cup (IF Answered(Call) THEN {Call} ELSE {})

\* The size of the asset of a request in points, oriented as the request's
\* rotate flag asks: a PDF is measured in points, a PNG in pixels at 300 dpi.
OrientedSize(r) ==
  LET w == IF r.file.ext = "pdf" THEN r.file.width
           ELSE (r.file.width * 72) \div 300
      h == IF r.file.ext = "pdf" THEN r.file.height
           ELSE (r.file.height * 72) \div 300
  IN IF r.rotate THEN <<h, w>> ELSE <<w, h>>

\* The sheets a request asks for, as a function of its asset, quantity and
\* rotate flag alone: the number of tiles of each sheet, its height and the
\* cell of each tile, filled row by row from the top left.
GridOf(r) ==
  LET w == OrientedSize(r)[1]
      h == OrientedSize(r)[2]
      perRow == (22 * 72 - 2 * 9 + 36) \div (w + 36)
      perSheet == perRow * ((200 * 72 - 2 * 9 + 36) \div (h + 36))
      count == (r.quantity + perSheet - 1) \div perSheet
  IN [i \in 1 .. count |->
       LET n == IF i < count THEN perSheet ELSE r.quantity - (count - 1) * perSheet
           rows == (n + perRow - 1) \div perRow
           height == ((rows * (h + 36) - 36 + 2 * 9 + 71) \div 72) * 72
       IN [height |-> height,
           cells |-> [k \in 1 .. n |->
                        << 9 + ((k - 1) % perRow) * (w + 36),
                           height - 9 - h - ((k - 1) \div perRow) * (h + 36) >>]]]

\* Two answered calls were answered alike.
SameAnswer(a, b) ==
  /\ a.pc = b.pc /\ a.err = b.err /\ a.resp = b.resp
  /\ Len(a.sheets) = Len(b.sheets)
  /\ \A i \in 1 .. Len(a.sheets) :
       /\ a.sheets[i].height = b.sheets[i].height
       /\ a.sheets[i].tiles = b.sheets[i].tiles

\* C17 (determinism): in a process that serves calls of the handler of
\* index.js lines 24-229 one after the other and at the same time, any two
\* answered calls with the same asset, quantity and rotate flag were answered
\* with the same sheets (their number, their heights, their tiles'
\* coordinates in order) and the same response, whatever calls were answered
\* or were waiting in between; and the sheets of every call answered with
\* success are those its own input fixes: their number, the height of each
\* and the cell of each tile.
C17_Determinism ==
  handler = "merge" =>
    /\ \A a \in AnsweredCalls : \A b \in AnsweredCalls :
         a.req = b.req => SameAnswer(a, b)
    /\ \A a \in AnsweredCalls :
         a.pc = "done" =>
           /\ Len(a.sheets) = Len(GridOf(a.req))
           /\ \A i \in 1 .. Len(a.sheets) :
                /\ a.sheets[i].height = GridOf(a.req)[i].height
                /\ a.sheets[i].cells = GridOf(a.req)[i].cells
                /\ Len(a.sheets[i].tiles) = Len(a.sheets[i].cells)

\* A request answered with two sheets is answered again with the same two
\* sheets by a call that arrived while a call of another request, which
\* came in between, waits for its first sheet to be saved.
C17_Witness ==
  /\ handler = "merge" /\ pc = "done"
  /\ Len(earlier) = 2
  /\ earlier[1].req = req /\ earlier[1].pc = "done"
  /\ Len(sheets) = 2 /\ earlier[1].sheets = sheets
  /\ earlier[2].req # req
  /\ earlier[2].pc = "sheetDraw" /\ Len(earlier[2].sheets) = 0

\* The heights of a list of sheets, in order.
Heights(ss) == [i \in 1 .. Len(ss) |-> ss[i].height]

\* C18 (rotation symmetry): in the handler of index.js lines 24-229, a
\* request with rotate=true on an asset of width w and height h and a request
\* with rotate=false on an asset of the same kind of width h and height w,
\* for the same quantity, end with the same logosPerRow, rowsPerSheet, number
\* of sheets and sheet heights, or with the same error; a square asset gives
\* the same with and without rotation.
C18_RotationSymmetry ==
  (handler = "merge" /\ pc \in {"done", "failed"}) =>
    \A k \in 1 .. Len(earlier) :
      LET e == earlier[k]
      IN (/\ e.req.rotate # req.rotate
          /\ e.req.quantity = req.quantity
          /\ e.req.file.ext = req.file.ext
          /\ e.req.file.width = req.file.height
          /\ e.req.file.height = req.file.width) =>
           /\ e.pc = pc /\ e.err = err
           /\ e.lay.logosPerRow = lay.logosPerRow
           /\ e.lay.rowsPerSheet = lay.rowsPerSheet
           /\ e.lay.totalSheetsNeeded = lay.totalSheetsNeeded
           /\ Len(e.sheets) = Len(sheets)
           /\ Heights(e.sheets) = Heights(sheets)

C18_Witness ==
  /\ handler = "merge" /\ pc = "done"
  /\ Len(earlier) >= 1
  /\ earlier[1].req.rotate /\ ~req.rotate
  /\ earlier[1].req.quantity = req.quantity
  /\ earlier[1].req.file.ext = req.file.ext
  /\ earlier[1].req.file.width = 6048 /\ earlier[1].req.file.height = 720
  /\ req.file.width = 720 /\ req.file.height = 6048
  /\ Len(sheets) = 2 /\ Heights(earlier[1].sheets) = Heights(sheets)

\* C19 (stall guard): in the pagination loop of part_002 lines 413-487 no
\* sheet without tiles is ever appended to generatedSheets: a pass that
\* would place no tile while remaining > 0 ends the request with an error.
C19_StallGuard ==
  handler = "download" =>
    \A c \in Clients :
      /\ \A i \in 1 .. Len(clients[c].generatedSheets) :
           Len(clients[c].generatedSheets[i].data.tiles) >= 1
      /\ Len(clients[c].generatedSheets) <= clients[c].quantity

\* C20 (exact sheet height): every sheet with tiles that the handler of
\* index.js lines 235-349 generates, a sheet followed by further sheets
\* included, has the page height ceil(rawHeight / 72) * 72 points, with
\* rawHeight = rows*height + (rows-1)*spacing + 2*margin for the rows placed
\* on that sheet.
C20_ExactHeight ==
  handler = "while" =>
    \A i \in 1 .. Len(sheets) :
      Len(sheets[i].tiles) >= 1 =>
        /\ sheets[i].rows = -((-Len(sheets[i].tiles)) \div lay.logosPerRow)
        /\ sheets[i].height
             = (-((-RawHeight(sheets[i].rows)) \div POINTS_PER_INCH)) * POINTS_PER_INCH

\* The cell of the k-th tile of a sheet of the given height when the cells
\* are filled row by row from the top margin down, each row from the left
\* margin on, lay.logosPerRow to a row.
RowMajorCell(k, sheetHeight) ==
  <<safeMarginPts + ((k - 1) % lay.logosPerRow) * (lay.logoWidthPts + spacingPts),
    sheetHeight - safeMarginPts - lay.logoHeightPts
      - ((k - 1) \div lay.logosPerRow) * (lay.logoHeightPts + spacingPts)>>

\* The cells of a sheet are filled row-major.
RowMajor(s) ==
  \A k \in 1 .. Len(s.cells) : s.cells[k] = RowMajorCell(k, s.height)

\* The rows that the cells of a sheet make up.
RowsOf(s) == -((-Len(s.cells)) \div lay.logosPerRow)

\* C21 (row-major placement, as amended): on every sheet of the grid loops
\* of index.js lines 24-229 and of part_003, the cells are filled row by row
\* from the top, each row left to right and every row but the last with
\* logosPerRow tiles; the top row lies exactly `margin` below the top edge,
\* and the bottom edge of the bottom row lies `margin` plus the slack of the
\* rounding of the height to a whole inch (less than 72 points) above the
\* bottom edge.
C21_RowMajorTopAnchored ==
  handler \in {"merge", "first"} =>
    \A i \in 1 .. Len(sheets) :
      Len(sheets[i].cells) >= 1 =>
        /\ Len(sheets[i].cells) = Len(sheets[i].tiles)
        /\ RowMajor(sheets[i])
        /\ sheets[i].cells[1][2] + lay.logoHeightPts = sheets[i].height - safeMarginPts
        /\ sheets[i].cells[Len(sheets[i].cells)][2]
             = safeMarginPts + (sheets[i].height - RawHeight(RowsOf(sheets[i])))
        /\ sheets[i].height - RawHeight(RowsOf(sheets[i])) \in 0 .. POINTS_PER_INCH - 1

\* A sheet of the multi-sheet loop with two full rows and a slack of 18 points.
C21_Witness ==
  /\ handler = "merge" /\ pc = "done"
  /\ Len(sheets) = 2
  /\ Len(sheets[1].cells) = 4 /\ lay.logosPerRow = 2
  /\ sheets[1].height = 12168
  /\ sheets[1].cells[4] = <<765, 27>>

\* C21 (row-major placement and bottom margin, as stated): on every sheet of
\* those grid loops the cells are filled row-major and the bottom edge of the
\* bottom row lies exactly `margin` above the bottom edge of the sheet.
C21_BottomMargin ==
  handler \in {"merge", "first"} =>
    \A i \in 1 .. Len(sheets) :
      Len(sheets[i].cells) >= 1 =>
        /\ RowMajor(sheets[i])
        /\ sheets[i].cells[Len(sheets[i].cells)][2] = safeMarginPts

\* A tile's bounding box lies inside the cell at (x, y) of the grid.
InsideCell(t, cell) ==
  LET b == BBox(t)
  IN /\ b.x0 >= cell[1] /\ b.x1 <= cell[1] + lay.logoWidthPts
     /\ b.y0 >= cell[2] /\ b.y1 <= cell[2] + lay.logoHeightPts

\* C22 (rotated tile stays in its cell): in the handler of part_008 lines
\* 23-179 with rotate=true, the grid is sized from the swapped width and
\* height of the page, and the bounding box of every tile drawn, rotated by
\* 90 degrees about its anchor, lies inside the tile's grid cell and not
\* left of the cell's x.
C22_RotatedInCell ==
  (handler = "pdfonly" /\ lay.measured /\ req.rotate) =>
    /\ lay.logoWidthPts = req.file.height
    /\ lay.logoHeightPts = req.file.width
    /\ \A k \in 1 .. Len(page.tiles) : InsideCell(page.tiles[k], page.cells[k])
    /\ \A i \in 1 .. Len(sheets) : \A k \in 1 .. Len(sheets[i].tiles) :
         InsideCell(sheets[i].tiles[k], sheets[i].cells[k])

\* C25 (file naming): every sheet generated by index.js, in the single-sheet
\* branch, the multi-sheet branch and the while-loop handler, is named
\* gangsheet_<widthInches>x<heightInches>.pdf with the sheet width in inches
\* and heightInches * 72 the height in points of the page stored.
C25_FileNaming ==
  handler \in {"merge", "while"} =>
    \A i \in 1 .. Len(sheets) :
      /\ sheets[i].name.sep = "_"
      /\ sheets[i].name.width = SHEET_WIDTH_INCH
      /\ sheets[i].name.height * POINTS_PER_INCH = sheets[i].height

\* C26 (error before commit): in the multi-sheet branch of index.js lines
\* 181-228, when the catch block starts because a step of sheet generation
\* threw, nothing of the success response has been committed: no
\* application/zip headers are set, the archive is not piped to the response
\* and no entry has been appended to it.
C26_ErrorBeforeCommit ==
  (handler = "merge" /\ pc = "catch" /\ err = "rejected") =>
    /\ resp.contentType = ""
    /\ resp.filename = ""
    /\ ~resp.piped
    /\ resp.entries = <<>>

\* C27 (rotation angle handling): in the while-loop handler of index.js
\* lines 235-349, for rotate 0, 90 and 270 the grid is sized from the tile as
\* it is drawn: every drawn tile's bounding box lies inside its grid cell
\* [baseX, baseX + logoWidthPts] x [baseY, baseY + logoHeightPts].
C27_AngleInCell ==
  (handler = "while" /\ lay.measured) =>
    /\ \A k \in 1 .. Len(page.tiles) : InsideCell(page.tiles[k], page.cells[k])
    /\ \A i \in 1 .. Len(sheets) : \A k \in 1 .. Len(sheets[i].tiles) :
         InsideCell(sheets[i].tiles[k], sheets[i].cells[k])

\* C28 (tiles stay on the final page): in the handler of part_002 lines
\* 26-186, in the single-sheet and in the multi-sheet branch, once the page
\* is resized to the rounded used height every drawn tile's vertical extent
\* [y, y + height] lies within [0, final page height].
C28_TilesOnFinalPage ==
  handler = "early" =>
    \A i \in 1 .. Len(sheets) : \A k \in 1 .. Len(sheets[i].tiles) :
      /\ BBox(sheets[i].tiles[k]).y0 >= 0
      /\ BBox(sheets[i].tiles[k]).y1 <= sheets[i].height

\* The bounding boxes of two tiles have no point in common.
Disjoint(a, b) ==
  \/ a.x1 < b.x0 \/ b.x1 < a.x0
  \/ a.y1 < b.y0 \/ b.y1 < a.y0

\* The tiles of one sheet of the grid packer, perRow to a row: no two
\* overlap, neighbours in a row are `spacing` apart and so are neighbours
\* in a column.
GridSeparated(tiles, perRow) ==
  LET box(k) == BBox(tiles[k])
      n == Len(tiles)
  IN /\ \A j, k \in 1 .. n : j < k => Disjoint(box(j), box(k))
     /\ \A k \in 1 .. n - 1 :
          (k % perRow # 0) =>
             /\ box(k + 1).x0 - box(k).x1 = spacingPts
             /\ box(k + 1).y0 = box(k).y0 /\ box(k + 1).y1 = box(k).y1
     /\ \A k \in 1 .. n - perRow :
          /\ box(k).y0 - box(k + perRow).y1 = spacingPts
          /\ box(k + perRow).x0 = box(k).x0 /\ box(k + perRow).x1 = box(k).x1

\* C29 (no overlap): on the sheet generated by the grid packer of part_003
\* lines 40-88 the bounding boxes of any two distinct tiles, rotated or not,
\* are disjoint; tiles next to each other in a row are exactly `spacing`
\* apart, and so are rows next to each other.
C29_NoOverlap ==
  (handler = "first" /\ lay.measured) =>
    /\ Len(page.tiles) > 0 => GridSeparated(page.tiles, lay.logosPerRow)
    /\ \A i \in 1 .. Len(sheets) :
         Len(sheets[i].tiles) > 0 => GridSeparated(sheets[i].tiles, lay.logosPerRow)

\* A finished sheet of rotated tiles, more than one.
C29_Witness ==
  /\ handler = "first" /\ pc = "done"
  /\ isRotated
  /\ Len(sheets) = 1
  /\ Len(sheets[1].tiles) >= 2

\* The number of tiles on each sheet of a list, in order.
TileCounts(ss) == [i \in 1 .. Len(ss) |-> Len(ss[i].tiles)]

\* C30 (equivalence of the two handlers of index.js): for a quantity >= 1
\* and an asset of which at least one column and one row fit, the for-loop
\* handler (lines 24-229) and the while-loop handler (lines 235-349) produce
\* the same number of sheets and the same number of tiles on each sheet, in
\* the same order.
C30_HandlersAgree ==
  (/\ handler = "while" /\ pc = "done"
   /\ earlier # <<>>
   /\ earlier[1].req.quantity >= 1
   /\ earlier[1].lay.logosPerRow >= 1 /\ earlier[1].lay.rowsPerSheet >= 1) =>
    /\ Len(sheets) = Len(earlier[1].sheets)
    /\ TileCounts(sheets) = TileCounts(earlier[1].sheets)

\* Both handlers have answered a request that takes more than one sheet.
C30_Witness ==
  /\ handler = "while" /\ pc = "done"
  /\ earlier # <<>>
  /\ Len(earlier[1].sheets) >= 2
  /\ Len(sheets) >= 2
  /\ TileCounts(sheets)[1] >= 2
====
